---- MODULE Spec2Model ----
(***************************************************************************)
(* A model of the conversational ledger (hongyan1215/money): the           *)
(* transaction library (lib/transaction), the budget monitor and the       *)
(* webhook's processed-image cache.  Time is counted in minutes.  Item     *)
(* labels are sequences of one-character strings so that the              *)
(* case-insensitive $regex of modifyTransaction can be computed.           *)
(***************************************************************************)
EXTENDS Integers, Sequences, FiniteSets, TLC

\* ------------------------------------------------------------------ bounds

\* The wall clock runs from 0 to MaxTime minutes.
MaxTime == 6
\* Most documents the createTransactions specification lets the store hold.
MaxRecords == 2

\* --------------------------------------------------------------- constants

\* 5 * 60 * 1000 ms, in minutes: the duplicate window of createTransactions.
FiveMinutes == 5

\* A date string that new Date() cannot parse; a parsable one is <<minute>>.
InvalidDate == <<>>

Owners == {"A", "B"}
\* The owner whose chat messages reach modifyTransaction; the other owner's
\* records are in the ledger and both use the dashboard.
Senders == {"A"}
Handlers == {"h1", "h2"}
\* The handler that runs createTransactions.
Creators == {"h1"}

\* ------------------------------------------------------------------- state

VARIABLES
    ledger,   \* the Transaction collection: a set of documents, _id unique
    budgets,  \* the Budget collection
    now,      \* the wall clock, Date.now(), in minutes
    nextId,   \* the next _id the store hands out
    pc,       \* per handler: where it stands in the call it runs
    ct,       \* per handler: the locals of its createTransactions call
    mt,       \* per handler: the locals of its modifyTransaction call
    result,   \* per handler: what its last call returned
    processedImageIds,  \* the webhook's Set of processed image message ids
    timers,   \* the pending setTimeout callbacks: the id to delete, and when
    img,      \* per handler: the image event it handles
    post,     \* the webhook delivery: not begun, awaiting its events, returned
    call      \* per handler: the operation it was last invoked with

imageVars == <<processedImageIds, timers, img, post>>
vars == <<ledger, budgets, now, nextId, pc, ct, mt, result, imageVars, call>>

\* A document of the Transaction collection.
TransactionDoc(id, userId, item, amount, category, type, date, createdAt) ==
    [_id |-> id, userId |-> userId, item |-> item, amount |-> amount,
     category |-> category, type |-> type, date |-> date,
     createdAt |-> createdAt]

\* The arguments and locals of modifyTransaction, before any call: userId,
\* mod (the descriptor) and targetTx (the loaded target, once resolved).
MtIdle == [userId |-> "", mod |-> <<>>, targetTx |-> <<>>]

\* A handler that handles no image event.
NoImage == [id |-> "", userId |-> "", deliveredAt |-> 0, parsed |-> FALSE]

\* A handler that has not been invoked.
NoCall == [op |-> ""]

\* What a handler that has returned nothing holds.
NoResult == [kind |-> "none", count |-> 0, list |-> <<>>]

\* ----------------------------------------------------- createTransactions

\* The validation filter of createTransactions: each of the four fields is
\* truthy.  A missing item is the empty label, a missing amount is 0, a
\* missing category or type is "".
IsValidCandidate(t) ==
    t.item /= <<>> /\ t.amount /= 0 /\ t.category /= "" /\ t.type /= ""

RECURSIVE SelectSeqValid(_)
SelectSeqValid(s) ==
    IF s = <<>> THEN <<>>
    ELSE IF IsValidCandidate(Head(s))
         THEN <<Head(s)>> \o SelectSeqValid(Tail(s))
         ELSE SelectSeqValid(Tail(s))

\* new Date(t.date) with the epoch for an unparsable date.
ParseDateEpoch(d, clock) == IF d = InvalidDate THEN 0 ELSE d[1]

\* new Date(t.date), with the fallback to now for an unparsable date.
ParseDate(d, clock) == IF d = InvalidDate THEN clock ELSE d[1]

\* The txData object built for a candidate.
TxData(userId, t, clock) ==
    [userId |-> userId, item |-> t.item, amount |-> t.amount,
     category |-> t.category, type |-> t.type,
     date |-> ParseDate(t.date, clock)]

\* The duplicate filter with its window on createdAt.
DuplicateFilterCreatedAt(d, tx, clock) ==
    /\ d.userId = tx.userId
    /\ d.item = tx.item
    /\ d.amount = tx.amount
    /\ d.category = tx.category
    /\ d.type = tx.type
    /\ d.createdAt >= clock - FiveMinutes
    /\ d.createdAt <= clock

\* The filter of the duplicate findOne: same owner, item, amount, category
\* and type, and the stored occurrence date within [now - 5 min, now].
DuplicateFilter(d, tx, clock) ==
    /\ d.userId = tx.userId
    /\ d.item = tx.item
    /\ d.amount = tx.amount
    /\ d.category = tx.category
    /\ d.type = tx.type
    /\ d.date >= clock - FiveMinutes
    /\ d.date <= clock

\* Transaction.findOne(filter) of the duplicate check: is there a match.
FindDuplicate(store, tx, clock) ==
    \E d \in store : DuplicateFilter(d, tx, clock)

\* What the language service may hand to createTransactions.  A date is given
\* relative to the clock: long past, now, a few minutes ahead, or unparsable.
\* Besides the well-formed candidates there is one without an item and one
\* without an amount.
CandidateItems == {<<"l">>, <<"L">>}
DateOffsets == {0 - (FiveMinutes + 1), 0, 3}
CandidateDates(clock) == {<<clock + o>> : o \in DateOffsets} \cup {InvalidDate}
Candidates(clock) ==
    [item : CandidateItems, amount : {150}, category : {"Food"},
     type : {"expense"}, date : CandidateDates(clock)]
        \cup [item : {<<>>}, amount : {150}, category : {"Food"},
              type : {"expense"}, date : {<<clock>>}]
        \cup [item : {<<"l">>}, amount : {0}, category : {"Food"},
              type : {"expense"}, date : {<<clock>>}]
\* A batch holds one candidate, or two that are both dated now.
Batches(clock) ==
    {<<c>> : c \in Candidates(clock)}
        \cup {b \in Candidates(clock) \X Candidates(clock) :
                  b[1].date = <<clock>> /\ b[2].date = <<clock>>}

CtIdle == [userId |-> "", queue |-> <<>>, tx |-> <<>>,
           savedDocs |-> <<>>, duplicateItems |-> <<>>]

\* Documents the running calls may still create.
RECURSIVE PendingOf(_)
PendingOf(hs) ==
    IF hs = {} THEN 0
    ELSE LET h == CHOOSE x \in hs : TRUE
         IN Len(ct[h].queue) + PendingOf(hs \ {h})

\* The label pushed to duplicateItems: `${item} $${amount}`.
DuplicateLabel(tx) == <<tx.item, tx.amount>>

\* createTransactions(userId, transactions) up to its first await: the
\* validation filter.
createTransactionsCall(h, userId, transactions) ==
    /\ LET valid == SelectSeqValid(transactions)
       IN /\ (nextId - 1) + PendingOf(Handlers) + Len(valid) <= MaxRecords
          /\ ct' = [ct EXCEPT ![h] = [CtIdle EXCEPT !.userId = userId,
                                                    !.queue = valid]]
    /\ pc' = [pc EXCEPT ![h] = "loop"]
    /\ UNCHANGED <<ledger, budgets, now, nextId, mt, result, imageVars, call>>

\* A RECORD intent of a text message: the handler calls createTransactions.
createTransactions(h, userId, transactions) ==
    /\ pc[h] = "idle"
    /\ createTransactionsCall(h, userId, transactions)

\* createTransactionsFindOne leaving the loop at the first duplicate.
createTransactionsFindOneBreak(h) ==
    /\ pc[h] = "loop"
    /\ ct[h].queue /= <<>>
    /\ LET tx == TxData(ct[h].userId, Head(ct[h].queue), now)
       IN IF FindDuplicate(ledger, tx, now)
          THEN /\ ct' = [ct EXCEPT ![h].queue = <<>>,
                                   ![h].duplicateItems =
                                       Append(@, DuplicateLabel(tx))]
               /\ pc' = pc
          ELSE /\ ct' = [ct EXCEPT ![h].tx = <<tx>>]
               /\ pc' = [pc EXCEPT ![h] = "create"]
    /\ UNCHANGED <<ledger, budgets, now, nextId, mt, result, imageVars, call>>

\* One turn of the loop up to the answer of the duplicate findOne: a
\* duplicate is pushed to duplicateItems, anything else goes on to create.
createTransactionsFindOne(h) ==
    /\ pc[h] = "loop"
    /\ ct[h].queue /= <<>>
    /\ LET tx == TxData(ct[h].userId, Head(ct[h].queue), now)
       IN IF FindDuplicate(ledger, tx, now)
          THEN /\ ct' = [ct EXCEPT ![h].queue = Tail(@),
                                   ![h].duplicateItems =
                                       Append(@, DuplicateLabel(tx))]
               /\ pc' = pc
          ELSE /\ ct' = [ct EXCEPT ![h].tx = <<tx>>]
               /\ pc' = [pc EXCEPT ![h] = "create"]
    /\ UNCHANGED <<ledger, budgets, now, nextId, mt, result, imageVars, call>>

\* Transaction.create(txData): the store assigns _id and createdAt.
createTransactionsCreate(h) ==
    /\ pc[h] = "create"
    /\ LET tx == ct[h].tx[1]
           doc == TransactionDoc(nextId, tx.userId, tx.item, tx.amount,
                                 tx.category, tx.type, tx.date, now)
       IN /\ ledger' = ledger \cup {doc}
          /\ ct' = [ct EXCEPT ![h].queue = Tail(@), ![h].tx = <<>>,
                              ![h].savedDocs = Append(@, doc)]
    /\ nextId' = nextId + 1
    /\ pc' = [pc EXCEPT ![h] = "loop"]
    /\ UNCHANGED <<budgets, now, mt, result, imageVars, call>>

\* return { saved: savedDocs, duplicates: duplicateItems }: the caller gets
\* the two lists as they stand in ct[h], and the call's locals are dropped.
createTransactionsReturn(h) ==
    /\ pc[h] = "loop"
    /\ ct[h].queue = <<>>
    /\ ct' = [ct EXCEPT ![h] = CtIdle]
    /\ pc' = [pc EXCEPT ![h] = "idle"]
    /\ UNCHANGED <<ledger, budgets, now, nextId, mt, result, imageVars, call>>

\* The dashboard's DELETE /api/transactions/[id] of the owner userId.
DELETE(userId, id) ==
    /\ \E d \in ledger : d._id = id /\ d.userId = userId
    /\ ledger' = {d \in ledger : ~(d._id = id /\ d.userId = userId)}
    /\ UNCHANGED <<budgets, now, nextId, pc, ct, mt, result, imageVars, call>>

\* A minute passes.
Tick ==
    /\ now < MaxTime
    /\ now' = now + 1
    /\ UNCHANGED <<ledger, budgets, nextId, pc, ct, mt, result, imageVars, call>>

InitCreate ==
    /\ ledger = {}
    /\ budgets = {}
    /\ now = 0
    /\ nextId = 1
    /\ pc = [h \in Handlers |-> "idle"]
    /\ ct = [h \in Handlers |-> CtIdle]
    /\ mt = [h \in Handlers |-> MtIdle]
    /\ result = [h \in Handlers |-> NoResult]
    /\ processedImageIds = {}
    /\ timers = {}
    /\ img = [h \in Handlers |-> NoImage]
    /\ post = "none"
    /\ call = [h \in Handlers |-> NoCall]

NextCreate ==
    \/ \E h \in Creators, u \in Owners :
          \E b \in Batches(now) : createTransactions(h, u, b)
    \/ \E h \in Creators : createTransactionsFindOne(h)
    \/ \E h \in Creators : createTransactionsCreate(h)
    \/ \E h \in Creators : createTransactionsReturn(h)
    \/ \E u \in Owners, id \in 1..MaxRecords : DELETE(u, id)
    \/ Tick

SpecCreate == InitCreate /\ [][NextCreate]_vars

\* ------------------------------------------------------ modifyTransaction

\* .limit(10) of the targetItem and targetAmount queries.
FindLimit == 10
\* candidates.slice(0, 5) of the ambiguity reply.
CandidateListLimit == 5

\* The letters of the labels, folded as $options: 'i' folds them.
Lower(c) ==
    IF c = "C" THEN "c" ELSE IF c = "X" THEN "x" ELSE IF c = "T" THEN "t" ELSE c

\* One character of the pattern against one of the label; "." is the regular
\* expression's wildcard.
CharMatches(p, c) == p = "." \/ Lower(p) = Lower(c)

\* { $regex: pattern, $options: 'i' }: the pattern occurs somewhere in item.
RegexMatch(item, pattern) ==
    \E i \in 0..(Len(item) - Len(pattern)) :
        \A j \in 1..Len(pattern) : CharMatches(pattern[j], item[i + j])

\* .sort({ createdAt: -1 }): every order of the documents S that is
\* non-increasing in createdAt; documents created in the same instant come
\* in either order.
RECURSIVE SortByCreatedAtDesc(_)
SortByCreatedAtDesc(S) ==
    IF S = {} THEN {<<>>}
    ELSE UNION {{<<x>> \o rest : rest \in SortByCreatedAtDesc(S \ {x})} :
                  x \in {y \in S : \A z \in S : z.createdAt <= y.createdAt}}

\* .limit(n)
Limit(docs, n) == SubSeq(docs, 1, IF Len(docs) < n THEN Len(docs) ELSE n)

\* Transaction.find(filter).sort({ createdAt: -1 }).limit(n), for the
\* documents S that pass the filter: the possible answers.
FindSorted(S, n) == {Limit(docs, n) : docs \in SortByCreatedAtDesc(S)}

\* Selector with the amount branch tried first.
SelectorAmountFirst(mod) ==
    IF mod.targetAmount /= <<>> THEN "amount"
    ELSE IF mod.targetItem /= <<>> THEN "item"
    ELSE "index"

\* Which of the three branches of modifyTransaction a descriptor takes.
Selector(mod) ==
    IF mod.targetItem /= <<>> THEN "item"
    ELSE IF mod.targetAmount /= <<>> THEN "amount"
    ELSE "index"

\* The documents the selector's query filters on.
Matching(store, userId, mod) ==
    CASE Selector(mod) = "item" ->
            {d \in store : d.userId = userId /\ RegexMatch(d.item, mod.targetItem)}
      [] Selector(mod) = "amount" ->
            {d \in store : d.userId = userId /\ d.amount = mod.targetAmount[1]}
      [] OTHER -> {d \in store : d.userId = userId}

\* IndexLimit without the + 1.
IndexLimitOffByOne(mod) ==
    IF mod.indexOffset = <<>> THEN 0 ELSE mod.indexOffset[1]

\* const limit = (mod.indexOffset || 0) + 1
IndexLimit(mod) ==
    (IF mod.indexOffset = <<>> THEN 0 ELSE mod.indexOffset[1]) + 1

\* The limit of the selector's query.
QueryLimit(mod) == IF Selector(mod) = "index" THEN IndexLimit(mod) ELSE FindLimit

\* toLocaleDateString('zh-TW', { month: 'numeric', day: 'numeric' }): the
\* day a minute falls in.
DateStr(date) == date \div 1440

\* `${dateStr} ${t.item} $${t.amount} (${t.category})`
Summary(t) == <<DateStr(t.date), t.item, t.amount, t.category>>

RECURSIVE Summaries(_)
Summaries(docs) ==
    IF docs = <<>> THEN <<>> ELSE <<Summary(Head(docs))>> \o Summaries(Tail(docs))

\* CandidateList without the slice.
CandidateListUnsliced(candidates) == Summaries(candidates)

\* The numbered list of the ambiguity reply.
CandidateList(candidates) == Summaries(Limit(candidates, CandidateListLimit))

Reply(kind, count, list) == [kind |-> kind, count |-> count, list |-> list]

\* What the resolution of a descriptor ends in, given the answer of its
\* query: a reply (no match, ambiguity) or the single target.
Resolution(mod, found) ==
    IF Selector(mod) = "index"
    THEN IF Len(found) = 0 \/ Len(found) < IndexLimit(mod)
         THEN [reply |-> <<Reply("noRecord", 0, <<>>)>>, targetTx |-> <<>>]
         ELSE [reply |-> <<>>, targetTx |-> <<found[IndexLimit(mod)]>>]
    ELSE IF Len(found) = 0
         THEN [reply |-> <<Reply(IF Selector(mod) = "item" THEN "noItem"
                                  ELSE "noAmount", 0, <<>>)>>,
               targetTx |-> <<>>]
         ELSE IF Len(found) = 1
              THEN [reply |-> <<>>, targetTx |-> <<found[1]>>]
              ELSE [reply |-> <<Reply("ambiguous", Len(found),
                                      CandidateList(found))>>,
                    targetTx |-> <<>>]

\* modifyTransaction(userId, mod) up to the answer of its query: it returns
\* a no-match or ambiguity reply, or holds the target it will act on.
modifyTransaction(h, userId, mod) ==
    /\ pc[h] = "idle"
    /\ \E found \in FindSorted(Matching(ledger, userId, mod), QueryLimit(mod)) :
          LET r == Resolution(mod, found)
          IN /\ mt' = [mt EXCEPT ![h] = [userId |-> userId, mod |-> <<mod>>,
                                           targetTx |-> r.targetTx]]
             /\ IF r.reply /= <<>>
                THEN /\ result' = [result EXCEPT ![h] = r.reply[1]]
                     /\ pc' = [pc EXCEPT ![h] = "done"]
                ELSE /\ pc' = [pc EXCEPT ![h] = "execute"]
                     /\ result' = result
    /\ UNCHANGED <<ledger, budgets, now, nextId, ct, imageVars, call>>

\* A delete by the owner of the document id instead of by _id.
DeleteManyOfOwner(store, id) ==
    {d \in store : \A t \in store : t._id = id => d.userId /= t.userId}

\* Transaction.findByIdAndDelete(id)
FindByIdAndDelete(store, id) == {d \in store : d._id /= id}

\* ApplyPatch with the category assigned whether or not the patch has one.
ApplyPatchReplacing(t, mod) ==
    [t EXCEPT !.amount = IF mod.newAmount /= <<>> THEN mod.newAmount[1] ELSE @,
              !.item = IF mod.newItem /= <<>> THEN mod.newItem ELSE @,
              !.category = mod.newCategory]

\* The three assignments of the UPDATE branch to the loaded document.
ApplyPatch(t, mod) ==
    [t EXCEPT !.amount = IF mod.newAmount /= <<>> THEN mod.newAmount[1] ELSE @,
              !.item = IF mod.newItem /= <<>> THEN mod.newItem ELSE @,
              !.category = IF mod.newCategory /= "" THEN mod.newCategory ELSE @]

\* The paths the document tracks as modified: those whose value changed
\* since it was loaded.
ModifiedPaths(loaded, t) ==
    {f \in {"item", "amount", "category"} : t[f] /= loaded[f]}

\* targetTx.save(): the stored document's modified paths are $set.
Save(store, t, paths) ==
    {IF d._id = t._id
     THEN [f \in DOMAIN d |-> IF f \in paths THEN t[f] ELSE d[f]]
     ELSE d : d \in store}

\* save() taking its document to be in the store without looking.
DocumentAssumed(store, id) == TRUE

\* What save() learns from the store: its updateOne matched the document,
\* or, with nothing to $set, its exists check found it.
DocumentExists(store, id) == \E d \in store : d._id = id

\* The rest of modifyTransaction: the DELETE or UPDATE of the target.  A
\* save() that finds its document gone throws DocumentNotFoundError, and
\* the webhook's catch swallows it: no reply is sent.
modifyTransactionExecute(h) ==
    /\ pc[h] = "execute"
    /\ LET mod == mt[h].mod[1]
           targetTx == mt[h].targetTx[1]
           patched == ApplyPatch(targetTx, mod)
           paths == ModifiedPaths(targetTx, patched)
       IN CASE mod.action = "DELETE" ->
                 /\ ledger' = FindByIdAndDelete(ledger, targetTx._id)
                 /\ result' = [result EXCEPT ![h] =
                                  Reply("deleted", 1, <<Summary(targetTx)>>)]
            [] mod.action = "UPDATE" ->
                 IF DocumentExists(ledger, targetTx._id)
                 THEN /\ ledger' = Save(ledger, patched, paths)
                      /\ result' = [result EXCEPT ![h] =
                                       Reply("updated", 1, <<Summary(patched)>>)]
                 ELSE /\ ledger' = ledger
                      /\ result' = [result EXCEPT ![h] =
                                       Reply("threw", 0, <<>>)]
            [] OTHER ->
                 /\ ledger' = ledger
                 /\ result' = [result EXCEPT ![h] = Reply("unknown", 0, <<>>)]
    /\ pc' = [pc EXCEPT ![h] = "done"]
    /\ UNCHANGED <<budgets, now, nextId, ct, mt, imageVars, call>>

\* The dashboard's DELETE (findOneAndDelete({ _id, userId })), run once by
\* handler h while another handler runs its call.
dashboardDELETE(h, userId, id) ==
    /\ pc[h] = "idle"
    /\ ledger' = {d \in ledger : ~(d._id = id /\ d.userId = userId)}
    /\ result' = [result EXCEPT ![h] =
                     IF \E d \in ledger : d._id = id /\ d.userId = userId
                     THEN Reply("success", 1, <<>>)
                     ELSE Reply("404", 0, <<>>)]
    /\ pc' = [pc EXCEPT ![h] = "done"]
    /\ UNCHANGED <<budgets, now, nextId, ct, mt, imageVars, call>>

\* The descriptors the language service may hand to modifyTransaction.
TargetItems == {<<>>, <<"c">>, <<".">>}
TargetAmounts == {<<>>, <<150>>}
MaxOffset == 2
IndexOffsets == {<<>>} \cup {<<k>> : k \in 0..MaxOffset}
Patches ==
    [action : {"UPDATE"}, newItem : {<<>>, <<"t">>},
     newAmount : {<<>>, <<50>>}, newCategory : {"", "Transport"}]
        \cup [action : {"DELETE", "OTHER"}, newItem : {<<>>},
              newAmount : {<<>>}, newCategory : {""}]
Descriptor(ti, ta, io, p) ==
    [targetItem |-> ti, targetAmount |-> ta, indexOffset |-> io,
     action |-> p.action, newItem |-> p.newItem, newAmount |-> p.newAmount,
     newCategory |-> p.newCategory]
Descriptors ==
    {Descriptor(ti, ta, io, p) :
        ti \in TargetItems, ta \in TargetAmounts, io \in IndexOffsets,
        p \in Patches}

\* The ledgers modifyTransaction is run on: up to MaxLedger documents of any
\* shape, or up to MaxMatches documents of owner A that all read "c" 150,
\* one more than the reply lists.  Documents 2 and 3 were created in the same
\* instant.
MaxLedger == 2
MaxMatches == CandidateListLimit + 1
CreatedAtOf(i) == IF i = 3 THEN 2 ELSE i
Shapes ==
    {[userId |-> "A", item |-> <<"c">>, amount |-> 150],
     [userId |-> "A", item |-> <<"C", "x">>, amount |-> 50],
     [userId |-> "A", item |-> <<"t">>, amount |-> 150],
     [userId |-> "B", item |-> <<"c">>, amount |-> 150]}
MatchShapes == {[userId |-> "A", item |-> <<"c">>, amount |-> 150]}
LedgerOf(f) ==
    {TransactionDoc(i, f[i].userId, f[i].item, f[i].amount, "Food",
                    "expense", 0, CreatedAtOf(i)) : i \in DOMAIN f}
Ledgers ==
    UNION {{LedgerOf(f) : f \in [1..n -> Shapes]} : n \in 0..MaxLedger}
        \cup UNION {{LedgerOf(f) : f \in [1..n -> MatchShapes]} :
                      n \in (MaxLedger + 1)..MaxMatches}

InitModify ==
    /\ ledger \in Ledgers
    /\ budgets = {}
    /\ now = 0
    /\ nextId = MaxMatches + 1
    /\ pc = [h \in Handlers |-> "idle"]
    /\ ct = [h \in Handlers |-> CtIdle]
    /\ mt = [h \in Handlers |-> MtIdle]
    /\ result = [h \in Handlers |-> NoResult]
    /\ processedImageIds = {}
    /\ timers = {}
    /\ img = [h \in Handlers |-> NoImage]
    /\ post = "none"
    /\ call = [h \in Handlers |-> NoCall]

NextModify ==
    \/ \E u \in Senders, mod \in Descriptors : modifyTransaction("h1", u, mod)
    \/ modifyTransactionExecute("h1")
    \/ \E u \in Owners, id \in 1..MaxMatches : dashboardDELETE("h2", u, id)

SpecModify == InitModify /\ [][NextModify]_vars

\* ------------------------------------------------- webhook: image messages

\* IMAGE_ID_CACHE_TTL = 5 * 60 * 1000 ms, in minutes.
IMAGE_ID_CACHE_TTL == 5

\* The message ids the transport delivers, and what the OCR reads off an
\* image: one receipt line dated at the time of the reading.
ImageIds == {"m1", "m2"}
ImageOwners == {"A"}
ParsedReceipt(clock) ==
    <<[item |-> <<"l">>, amount |-> 150, category |-> "Food",
       type |-> "expense", date |-> <<clock>>]>>

\* POST, image branch, up to its first await: the processedImageIds.has
\* check.  A known id is answered and dropped, any other goes on to
\* getMessageContent and parseImage.  Each handler takes one delivery.
POSTImage(h, userId, imageId) ==
    /\ pc[h] = "idle"
    /\ img[h] = NoImage
    /\ IF imageId \in processedImageIds
       THEN /\ img' = [img EXCEPT ![h] = [id |-> imageId, userId |-> userId,
                                          deliveredAt |-> now,
                                          parsed |-> FALSE]]
            /\ result' = [result EXCEPT ![h] =
                             [kind |-> "alreadyProcessed", count |-> 0,
                              list |-> <<>>]]
            /\ pc' = pc
       ELSE /\ img' = [img EXCEPT ![h] = [id |-> imageId, userId |-> userId,
                                          deliveredAt |-> now,
                                          parsed |-> TRUE]]
            /\ result' = result
            /\ pc' = [pc EXCEPT ![h] = "parseImage"]
    /\ UNCHANGED <<ledger, budgets, now, nextId, ct, mt, processedImageIds,
                   timers, post, call>>

\* parseImage has answered: the id is added to the set and its removal is
\* scheduled IMAGE_ID_CACHE_TTL from now.
POSTImageParsed(h) ==
    /\ pc[h] = "parseImage"
    /\ processedImageIds' = processedImageIds \cup {img[h].id}
    /\ timers' = timers \cup {[id |-> img[h].id,
                               due |-> now + IMAGE_ID_CACHE_TTL]}
    /\ pc' = [pc EXCEPT ![h] = "intent"]
    /\ UNCHANGED <<ledger, budgets, now, nextId, ct, mt, result, img, post,
                   call>>

\* The intent of the image, RECORD: the handler calls createTransactions.
POSTImageIntent(h) ==
    /\ pc[h] = "intent"
    /\ createTransactionsCall(h, img[h].userId, ParsedReceipt(now))

\* A setTimeout callback that is due runs: processedImageIds.delete(imageId).
TimeoutFires(t) ==
    /\ t \in timers
    /\ t.due <= now
    /\ processedImageIds' = processedImageIds \ {t.id}
    /\ timers' = timers \ {t}
    /\ UNCHANGED <<ledger, budgets, now, nextId, pc, ct, mt, result, img,
                   post, call>>

\* A minute passes; the callbacks that are due have run.
TickImage ==
    /\ \A t \in timers : t.due > now
    /\ Tick

InitImage == InitCreate

NextImage ==
    \/ \E h \in Handlers, u \in ImageOwners, id \in ImageIds :
          POSTImage(h, u, id)
    \/ \E h \in Handlers : POSTImageParsed(h)
    \/ \E h \in Handlers : POSTImageIntent(h)
    \/ \E h \in Handlers : createTransactionsFindOne(h)
    \/ \E h \in Handlers : createTransactionsCreate(h)
    \/ \E h \in Handlers : createTransactionsReturn(h)
    \/ \E t \in timers : TimeoutFires(t)
    \/ TickImage

SpecImage == InitImage /\ [][NextImage]_vars

\* The invocation of handler h went past the processedImageIds check.
Proceeded(h) == img[h].id /= "" /\ img[h].parsed

\* C4: an image id delivered again less than IMAGE_ID_CACHE_TTL after a
\* delivery that went on to parsing and intent handling does not go on to
\* them a second time, whether or not the two handlers overlap.
C4_ImageProcessedAtMostOnce ==
    \A h1, h2 \in Handlers :
        (h1 /= h2 /\ Proceeded(h1) /\ Proceeded(h2)
            /\ img[h1].id = img[h2].id
            /\ img[h1].deliveredAt <= img[h2].deliveredAt)
        => img[h2].deliveredAt - img[h1].deliveredAt >= IMAGE_ID_CACHE_TTL

\* ----------------------------------------------------- getTransactionStats

\* The sum of the amounts of a set of documents: { $sum: '$amount' }.
RECURSIVE SumAmount(_)
SumAmount(docs) ==
    IF docs = {} THEN 0
    ELSE LET d == CHOOSE x \in docs : TRUE
         IN d.amount + SumAmount(docs \ {d})

\* { $match: matchStage }: the owner's documents dated within
\* [startDate, endDate], of the category of the query when it names one.
MatchStage(store, userId, query) ==
    {d \in store :
        /\ d.userId = userId
        /\ d.date >= query.startDate
        /\ d.date <= query.endDate
        /\ (query.category /= "" => d.category = query.category)}

\* The facet totals: { $group: { _id: '$type', total, count } }.
GroupByType(docs) ==
    {[_id |-> ty,
      total |-> SumAmount({d \in docs : d.type = ty}),
      count |-> Cardinality({d \in docs : d.type = ty})] :
        ty \in {d.type : d \in docs}}

\* The facet breakdown without the type match.
AnyType(docs) == docs

\* The facet breakdown: { $match: { type: 'expense' } }.
ExpenseOnly(docs) == {d \in docs : d.type = "expense"}

\* The facet breakdown: { $group: { _id: '$category', total } }.
GroupByCategory(docs) ==
    {[_id |-> c, total |-> SumAmount({d \in docs : d.category = c})] :
        c \in {d.category : d \in docs}}

\* The groups sorted by total in ascending order.
SortByTotalAsc(groups) ==
    {s \in [1..Cardinality(groups) -> groups] :
        /\ \A i, j \in DOMAIN s : i /= j => s[i] /= s[j]
        /\ \A i, j \in DOMAIN s : i < j => s[i].total <= s[j].total}

\* { $sort: { total: -1 } }: the orders the sort may return the groups in,
\* groups of equal total in either order.
SortByTotalDesc(groups) ==
    {s \in [1..Cardinality(groups) -> groups] :
        /\ \A i, j \in DOMAIN s : i /= j => s[i] /= s[j]
        /\ \A i, j \in DOMAIN s : i < j => s[i].total >= s[j].total}

\* result.totals.forEach: the total of the group of one type, 0 without one.
TotalOfType(totals, ty) ==
    IF \E t \in totals : t._id = ty
    THEN (CHOOSE t \in totals : t._id = ty).total
    ELSE 0

\* result.totals.forEach: transactionCount += t.count
RECURSIVE CountOf(_)
CountOf(totals) ==
    IF totals = {} THEN 0
    ELSE LET t == CHOOSE x \in totals : TRUE
         IN t.count + CountOf(totals \ {t})

\* getTransactionStats(userId, query): one aggregate with one $facet.
getTransactionStats(h, userId, query) ==
    /\ pc[h] \in {"idle", "done"}
    /\ LET docs == MatchStage(ledger, userId, query)
           totals == GroupByType(docs)
       IN \E breakdown \in SortByTotalDesc(GroupByCategory(ExpenseOnly(docs))) :
             result' = [result EXCEPT ![h] =
                           [kind |-> "stats",
                            totalExpense |-> TotalOfType(totals, "expense"),
                            totalIncome |-> TotalOfType(totals, "income"),
                            breakdown |-> breakdown,
                            transactionCount |-> CountOf(totals)]]
    /\ pc' = [pc EXCEPT ![h] = "done"]
    /\ UNCHANGED <<ledger, budgets, now, nextId, ct, mt, imageVars, call>>

\* The queries the language service may hand over: a range, and a category
\* or none.
Queries ==
    [startDate : {0}, endDate : {5, 9}, category : {"", "Food", "Transport"}]

\* The ledgers getTransactionStats is run on: up to MaxStatsLedger documents,
\* of owner A in any type, category and amount, one of them dated late, or
\* the one of owner B.
MaxStatsLedger == 3
StatsShapes ==
    [userId : {"A"}, type : {"expense", "income"},
     category : {"Food", "Transport"}, amount : {50, 150}, date : {1}]
        \cup [userId : {"A"}, type : {"expense"}, category : {"Food"},
              amount : {150}, date : {9}]
        \cup [userId : {"B"}, type : {"expense"}, category : {"Food"},
              amount : {150}, date : {1}]
StatsLedgerOf(f) ==
    {TransactionDoc(i, f[i].userId, <<"l">>, f[i].amount, f[i].category,
                    f[i].type, f[i].date, 0) : i \in DOMAIN f}
StatsLedgers ==
    UNION {{StatsLedgerOf(f) : f \in [1..n -> StatsShapes]} :
              n \in 0..MaxStatsLedger}

InitStats ==
    /\ ledger \in StatsLedgers
    /\ budgets = {}
    /\ now = 0
    /\ nextId = MaxStatsLedger + 1
    /\ pc = [h \in Handlers |-> "idle"]
    /\ ct = [h \in Handlers |-> CtIdle]
    /\ mt = [h \in Handlers |-> MtIdle]
    /\ result = [h \in Handlers |-> NoResult]
    /\ processedImageIds = {}
    /\ timers = {}
    /\ img = [h \in Handlers |-> NoImage]
    /\ post = "none"
    /\ call = [h \in Handlers |-> NoCall]

NextStats ==
    \/ \E u \in Owners, q \in Queries : getTransactionStats("h1", u, q)
    \/ \E u \in Owners, id \in 1..MaxStatsLedger : dashboardDELETE("h2", u, id)

SpecStats == InitStats /\ [][NextStats]_vars

\* The sum of the totals of a breakdown list.
RECURSIVE SumTotals(_)
SumTotals(list) ==
    IF list = <<>> THEN 0 ELSE Head(list).total + SumTotals(Tail(list))

\* C5: in every result of getTransactionStats the totals of the breakdown
\* add up to totalExpense, whatever the ledger, the range and the category
\* filter, and whatever was deleted before the call.
C5_BreakdownSumsToTotalExpense ==
    \A h \in Handlers :
        result[h].kind = "stats"
            => SumTotals(result[h].breakdown) = result[h].totalExpense

\* A result with two categories in the breakdown and income beside the
\* expenses, with a record deleted through the dashboard.
C5_Witness ==
    /\ result["h1"].kind = "stats"
    /\ Len(result["h1"].breakdown) = 2
    /\ result["h1"].totalIncome > 0
    /\ result["h2"].kind = "success"

\* ------------------------------------------------ claims: createTransactions

\* d is a stored record of txData's owner with the same item, amount,
\* category and type.
SameCandidate(d, tx) ==
    /\ d.userId = tx.userId
    /\ d.item = tx.item
    /\ d.amount = tx.amount
    /\ d.category = tx.category
    /\ d.type = tx.type

\* Handler h gets the answer of its duplicate findOne in this step.
FindOneStep(h) ==
    /\ pc[h] = "loop"
    /\ ct[h].queue /= <<>>
    /\ (pc'[h] /= pc[h] \/ ct'[h] /= ct[h])

\* C1: a candidate whose owner has an identical record (item, amount,
\* category, type) persisted less than 5 minutes ago and still in the ledger
\* is reported in duplicates and not persisted, whatever its occurrence date.
C1_DuplicateWithinFiveMinutes ==
    [][\A h \in Creators :
          FindOneStep(h) =>
              LET tx == TxData(ct[h].userId, Head(ct[h].queue), now)
              IN (\E d \in ledger :
                      SameCandidate(d, tx) /\ now - d.createdAt < FiveMinutes)
                 => /\ pc'[h] = "loop"
                    /\ ct'[h].duplicateItems =
                           Append(ct[h].duplicateItems, DuplicateLabel(tx))
                    /\ ledger' = ledger]_vars

\* C2: a candidate whose owner's identical records were all persisted more
\* than 5 minutes ago is not reported as a duplicate and goes on to be
\* persisted, whatever its occurrence date.
C2_PersistedAfterFiveMinutes ==
    [][\A h \in Creators :
          FindOneStep(h) =>
              LET tx == TxData(ct[h].userId, Head(ct[h].queue), now)
              IN (/\ \E d \in ledger : SameCandidate(d, tx)
                  /\ \A d \in ledger :
                        SameCandidate(d, tx)
                            => now - d.createdAt > FiveMinutes)
                 => /\ pc'[h] = "create"
                    /\ ct'[h].duplicateItems = ct[h].duplicateItems]_vars

\* ------------------------------------------------- claims: modifyTransaction

\* Handler h gets the answer of its resolution query in this step.
ResolveStep(h) == pc[h] = "idle" /\ pc'[h] /= "idle" /\ mt'[h].mod /= <<>>

\* Handler h runs the DELETE or UPDATE of its target in this step.
ExecuteStep(h) == pc[h] = "execute" /\ pc'[h] = "done"

\* What a resolution step of h ended in, read off the next state.
OutcomeOf(h) ==
    [reply |-> IF pc'[h] = "done" THEN <<result'[h]>> ELSE <<>>,
     targetTx |-> mt'[h].targetTx]

\* C3: a DELETE whose resolved record is gone when the delete call runs
\* does not answer with the confirmation of a deletion.
C3_DeleteOfVanishedRecordReportsNotFound ==
    [][(/\ ExecuteStep("h1")
        /\ mt["h1"].mod[1].action = "DELETE"
        /\ ~ \E d \in ledger : d._id = mt["h1"].targetTx[1]._id)
       => result'["h1"].kind /= "deleted"]_vars

\* C6: a descriptor with targetItem and targetAmount both set resolves as
\* the same descriptor without targetAmount and indexOffset does: the same
\* single target, the same ambiguity reply or the same no-match reply.
C6_TargetItemHasPriority ==
    [][ResolveStep("h1") =>
          LET mod == mt'["h1"].mod[1]
              itemOnly == [mod EXCEPT !.targetAmount = <<>>,
                                      !.indexOffset = <<>>]
              byItem == {d \in ledger : d.userId = mt'["h1"].userId
                                        /\ RegexMatch(d.item, mod.targetItem)}
          IN (mod.targetItem /= <<>> /\ mod.targetAmount /= <<>>)
             => \E found \in FindSorted(byItem, FindLimit) :
                   /\ OutcomeOf("h1") = Resolution(itemOnly, found)
                   /\ OutcomeOf("h1").reply /= <<>>
                        => OutcomeOf("h1").reply[1].kind
                               \in {"noItem", "ambiguous"}]_vars

\* A resolution step of h1 with both selectors set has led to a single
\* target although the amount alone matches several records.
C6_Witness ==
    /\ pc["h1"] = "execute"
    /\ mt["h1"].mod[1].targetItem /= <<>>
    /\ mt["h1"].mod[1].targetAmount /= <<>>
    /\ mt["h1"].mod[1].indexOffset /= <<>>
    /\ Cardinality({d \in ledger : d.userId = mt["h1"].userId
                       /\ d.amount = mt["h1"].mod[1].targetAmount[1]}) > 1

\* The selector of the call h has made matches the documents S.
SelectorMatches(h) ==
    LET mod == mt'[h].mod[1]
    IN IF mod.targetItem /= <<>>
       THEN {d \in ledger : d.userId = mt'[h].userId
                            /\ RegexMatch(d.item, mod.targetItem)}
       ELSE {d \in ledger : d.userId = mt'[h].userId
                            /\ d.amount = mod.targetAmount[1]}

\* The summaries list documents of S, without repetition, newest first.
ListsNewestFirst(list, S) ==
    \E docs \in SortByCreatedAtDesc(S) :
        /\ Len(list) <= Len(docs)
        /\ \A i \in 1..Len(list) : list[i] = Summary(docs[i])

\* C7: a targetItem or targetAmount selector that matches more than one
\* record of the owner changes nothing and yields the ambiguity reply, which
\* lists the matches newest first, at most 5 of them, and all of them when
\* they are 5 or fewer (3 matches give 3 entries).
C7_AmbiguousMatchListsCandidates ==
    [][(/\ ResolveStep("h1")
        /\ (mt'["h1"].mod[1].targetItem /= <<>>
              \/ mt'["h1"].mod[1].targetAmount /= <<>>)
        /\ Cardinality(SelectorMatches("h1")) > 1)
       => /\ ledger' = ledger
          /\ pc'["h1"] = "done"
          /\ mt'["h1"].targetTx = <<>>
          /\ result'["h1"].kind = "ambiguous"
          /\ Len(result'["h1"].list) <= 5
          /\ Cardinality(SelectorMatches("h1")) <= 5
                => Len(result'["h1"].list) = Cardinality(SelectorMatches("h1"))
          /\ ListsNewestFirst(result'["h1"].list, SelectorMatches("h1"))]_vars

\* An ambiguity reply over more than 5 matching records.
C7_Witness ==
    /\ pc["h1"] = "done"
    /\ result["h1"].kind = "ambiguous"
    /\ result["h1"].count > 5
    /\ Len(result["h1"].list) = 5

\* C8: with neither targetItem nor targetAmount set the reply is never the
\* ambiguity reply; with offset k and n records of the owner, k < n leads to
\* the record at position k of the history sorted by createdAt descending,
\* k >= n to the no-match reply, the ledger unchanged.
C8_PositionalResolution ==
    [][(/\ ResolveStep("h1")
        /\ mt'["h1"].mod[1].targetItem = <<>>
        /\ mt'["h1"].mod[1].targetAmount = <<>>)
       => LET mod == mt'["h1"].mod[1]
              k == IF mod.indexOffset = <<>> THEN 0 ELSE mod.indexOffset[1]
              history == {d \in ledger : d.userId = mt'["h1"].userId}
          IN /\ ledger' = ledger
             /\ k >= Cardinality(history)
                  => pc'["h1"] = "done" /\ result'["h1"].kind = "noRecord"
             /\ k < Cardinality(history)
                  => /\ pc'["h1"] = "execute"
                     /\ mt'["h1"].targetTx /= <<>>
                     /\ LET t == mt'["h1"].targetTx[1]
                        IN /\ t \in history
                           /\ Cardinality({d \in history :
                                  d.createdAt > t.createdAt}) <= k
                           /\ Cardinality({d \in history :
                                  d.createdAt >= t.createdAt}) > k]_vars

\* A positional resolution with offset 1 has picked the second newest record.
C8_Witness ==
    /\ pc["h1"] = "execute"
    /\ mt["h1"].mod[1].targetItem = <<>>
    /\ mt["h1"].mod[1].targetAmount = <<>>
    /\ mt["h1"].mod[1].indexOffset = <<1>>
    /\ \E d \in ledger : d.userId = mt["h1"].userId
                         /\ d.createdAt > mt["h1"].targetTx[1].createdAt

\* C9: the DELETE of a resolved record removes the record with that _id and
\* nothing else: every other record stays as it is, no record appears, and
\* the budgets are unchanged.
C9_DeleteRemovesExactlyTheTarget ==
    [][(ExecuteStep("h1") /\ mt["h1"].mod[1].action = "DELETE")
       => /\ ledger' \subseteq ledger
          /\ \A d \in ledger :
                d \in ledger' <=> d._id /= mt["h1"].targetTx[1]._id
          /\ budgets' = budgets]_vars

\* A DELETE has removed its target while two records of the same owner,
\* item and amount stay in the ledger.
C9_Witness ==
    /\ pc["h1"] = "done"
    /\ result["h1"].kind = "deleted"
    /\ mt["h1"].targetTx /= <<>>
    /\ ~ \E d \in ledger : d._id = mt["h1"].targetTx[1]._id
    /\ Cardinality({d \in ledger :
                       /\ d.userId = mt["h1"].userId
                       /\ d.item = mt["h1"].targetTx[1].item
                       /\ d.amount = mt["h1"].targetTx[1].amount}) >= 2
    /\ pc["h2"] = "idle"

\* The patch of mod supplies field f.
Supplied(mod, f) ==
    CASE f = "item" -> mod.newItem /= <<>>
      [] f = "amount" -> mod.newAmount /= <<>>
      [] f = "category" -> mod.newCategory /= ""
      [] OTHER -> FALSE

\* C10: an UPDATE leaves every other record as it is, adds and removes no
\* record, and in the target leaves every field the patch does not supply
\* as it was: owner, type, date, createdAt and the fields among item, amount
\* and category that the patch omits.
C10_UpdateChangesOnlyPatchedFields ==
    [][(ExecuteStep("h1") /\ mt["h1"].mod[1].action = "UPDATE")
       => /\ {d._id : d \in ledger'} = {d._id : d \in ledger}
          /\ Cardinality(ledger') = Cardinality(ledger)
          /\ \A d \in ledger :
                \E e \in ledger' :
                    /\ e._id = d._id
                    /\ d._id /= mt["h1"].targetTx[1]._id => e = d
                    /\ \A f \in DOMAIN d :
                          ~ Supplied(mt["h1"].mod[1], f) => e[f] = d[f]]_vars

\* An UPDATE that supplies only newAmount has changed the target's amount.
C10_Witness ==
    /\ pc["h1"] = "done"
    /\ result["h1"].kind = "updated"
    /\ mt["h1"].mod[1].newAmount = <<50>>
    /\ mt["h1"].mod[1].newItem = <<>>
    /\ mt["h1"].mod[1].newCategory = ""
    /\ \E d \in ledger :
          /\ d._id = mt["h1"].targetTx[1]._id
          /\ d.amount = 50
          /\ mt["h1"].targetTx[1].amount = 150
          /\ d.item = mt["h1"].targetTx[1].item

\* -------------------------------------------------- bulkDeleteTransactions

\* !query.startDate || !query.endDate: a boundary is missing or empty.  A
\* boundary is <<>> when missing or empty and <<minute>> otherwise.
RangeMissingBoth(query) == query.startDate = <<>> /\ query.endDate = <<>>

RangeMissing(query) == query.startDate = <<>> \/ query.endDate = <<>>

\* date: { $gte: start, $lte: end } with the upper end left out.
InRangeExclusive(date, query) ==
    /\ query.startDate /= <<>>
    /\ query.endDate /= <<>>
    /\ date >= query.startDate[1]
    /\ date < query.endDate[1]

\* date: { $gte: start, $lte: end }; an Invalid Date bounds nothing.
InRange(date, query) ==
    /\ query.startDate /= <<>>
    /\ query.endDate /= <<>>
    /\ date >= query.startDate[1]
    /\ date <= query.endDate[1]

\* The filter of deleteMany without the owner.
BulkFilterAnyOwner(d, userId, query) == InRange(d.date, query)

\* The filter of deleteMany: { userId, date: { $gte: start, $lte: end } }.
BulkFilter(d, userId, query) == d.userId = userId /\ InRange(d.date, query)

\* bulkDeleteTransactions(userId, query): the range check, then one
\* deleteMany and the reply on its deletedCount.
bulkDeleteTransactions(h, userId, query) ==
    /\ pc[h] \in {"idle", "done"}
    /\ call' = [call EXCEPT ![h] = [op |-> "bulkDeleteTransactions",
                                    userId |-> userId, query |-> query]]
    /\ IF RangeMissing(query)
       THEN /\ ledger' = ledger
            /\ result' = [result EXCEPT ![h] = Reply("rangeRequired", 0, <<>>)]
       ELSE LET deleted == {d \in ledger : BulkFilter(d, userId, query)}
            IN /\ ledger' = ledger \ deleted
               /\ result' = [result EXCEPT ![h] =
                                IF Cardinality(deleted) = 0
                                THEN Reply("noneToDelete", 0, <<>>)
                                ELSE Reply("bulkDeleted", Cardinality(deleted),
                                           <<>>)]
    /\ pc' = [pc EXCEPT ![h] = "done"]
    /\ UNCHANGED <<budgets, now, nextId, ct, mt, imageVars>>

\* The ranges the language service may hand over, a boundary missing or not.
BulkQueries == [startDate : {<<>>, <<1>>, <<2>>}, endDate : {<<>>, <<1>>, <<9>>}]

\* The ledgers bulkDeleteTransactions is run on: up to MaxBulkLedger
\* documents of either owner, dated on or off the boundaries.
MaxBulkLedger == 3
BulkShapes == [userId : Owners, date : {1, 2, 9}]
BulkLedgerOf(f) ==
    {TransactionDoc(i, f[i].userId, <<"l">>, 150, "Food", "expense",
                    f[i].date, 0) : i \in DOMAIN f}
BulkLedgers ==
    UNION {{BulkLedgerOf(f) : f \in [1..n -> BulkShapes]} :
              n \in 0..MaxBulkLedger}

InitBulk ==
    /\ ledger \in BulkLedgers
    /\ budgets = {}
    /\ now = 0
    /\ nextId = MaxBulkLedger + 1
    /\ pc = [h \in Handlers |-> "idle"]
    /\ ct = [h \in Handlers |-> CtIdle]
    /\ mt = [h \in Handlers |-> MtIdle]
    /\ result = [h \in Handlers |-> NoResult]
    /\ processedImageIds = {}
    /\ timers = {}
    /\ img = [h \in Handlers |-> NoImage]
    /\ post = "none"
    /\ call = [h \in Handlers |-> NoCall]

NextBulk ==
    \/ \E u \in Owners, q \in BulkQueries : bulkDeleteTransactions("h1", u, q)
    \/ \E u \in Owners, id \in 1..MaxBulkLedger : dashboardDELETE("h2", u, id)

SpecBulk == InitBulk /\ [][NextBulk]_vars

\* A step of bulkDeleteTransactions by handler h.
BulkStep(h) ==
    /\ call'[h].op = "bulkDeleteTransactions"
    /\ <<call[h], result[h], pc[h]>> /= <<call'[h], result'[h], pc'[h]>>
       \/ ledger' /= ledger

\* C11: a call with startDate or endDate missing or empty deletes nothing and
\* returns the range-validation message, which is not the message of a valid
\* range that deletes nothing.
C11_MissingBoundaryIsRejected ==
    [][(BulkStep("h1") /\ pc'["h2"] = pc["h2"]
            /\ (call'["h1"].query.startDate = <<>>
                   \/ call'["h1"].query.endDate = <<>>))
          => /\ ledger' = ledger
             /\ result'["h1"].kind = "rangeRequired"
             /\ result'["h1"] /= Reply("noneToDelete", 0, <<>>)
             /\ result'["h1"].kind /= "bulkDeleted"]_vars

\* endDate is present, startDate is missing, the owner has a record dated up
\* to endDate, and the call was rejected.
C11_Witness ==
    /\ call["h1"].op = "bulkDeleteTransactions"
    /\ call["h1"].query.startDate = <<>>
    /\ call["h1"].query.endDate /= <<>>
    /\ result["h1"].kind = "rangeRequired"
    /\ \E d \in ledger : /\ d.userId = call["h1"].userId
                         /\ d.date <= call["h1"].query.endDate[1]

\* C12: a call with both boundaries removes exactly the owner's records
\* dated within [start, end], both ends included, reports their number, and
\* leaves every other record as it was.
C12_BulkDeleteRemovesExactlyTheRange ==
    [][(BulkStep("h1") /\ pc'["h2"] = pc["h2"]
            /\ call'["h1"].query.startDate /= <<>>
            /\ call'["h1"].query.endDate /= <<>>)
          => LET u == call'["h1"].userId
                 lo == call'["h1"].query.startDate[1]
                 hi == call'["h1"].query.endDate[1]
                 gone == {d \in ledger :
                             d.userId = u /\ lo <= d.date /\ d.date <= hi}
             IN /\ ledger' = ledger \ gone
                /\ result'["h1"].count = Cardinality(gone)
                /\ (gone = {}) = (result'["h1"].kind = "noneToDelete")
                /\ (gone /= {}) = (result'["h1"].kind = "bulkDeleted")]_vars

\* A call whose range ends on the date of a record it removed, while a later
\* record of the owner and a record of another owner stay.
C12_Witness ==
    /\ call["h1"].op = "bulkDeleteTransactions"
    /\ result["h1"].kind = "bulkDeleted"
    /\ call["h1"].query.startDate = <<1>>
    /\ call["h1"].query.endDate = <<1>>
    /\ \E d \in ledger : d.userId = call["h1"].userId /\ d.date = 9
    /\ \E d \in ledger : d.userId /= call["h1"].userId /\ d.date = 1

\* ------------------------------------------- createTransactions: batches

\* Records that are in the store before the calls: one of each owner, both
\* dated now and equal to a candidate but for the owner.
PriorDocs ==
    {TransactionDoc(0, "A", <<"l">>, 150, "Food", "expense", 0, 0),
     TransactionDoc(0 - 1, "B", <<"L">>, 150, "Food", "expense", 0, 0)}

InitBatch ==
    /\ ledger \in SUBSET PriorDocs
    /\ budgets = {}
    /\ now = 0
    /\ nextId = 1
    /\ pc = [h \in Handlers |-> "idle"]
    /\ ct = [h \in Handlers |-> CtIdle]
    /\ mt = [h \in Handlers |-> MtIdle]
    /\ result = [h \in Handlers |-> NoResult]
    /\ processedImageIds = {}
    /\ timers = {}
    /\ img = [h \in Handlers |-> NoImage]
    /\ post = "none"
    /\ call = [h \in Handlers |-> NoCall]

\* Both handlers run createTransactions for the sender.
NextBatch ==
    \/ \E h \in Handlers, u \in Senders :
          \E b \in Batches(now) : createTransactions(h, u, b)
    \/ \E h \in Handlers : createTransactionsFindOne(h)
    \/ \E h \in Handlers : createTransactionsCreate(h)
    \/ \E h \in Handlers : createTransactionsReturn(h)

SpecBatch == InitBatch /\ [][NextBatch]_vars

MonthMinutes == 43200
StartOfMonth(t) == (t \div MonthMinutes) * MonthMinutes
EndOfMonth(t) == StartOfMonth(t) + MonthMinutes - 1

\* A document of the Budget collection.
BudgetDoc(id, userId, category, amount) ==
    [_id |-> id, userId |-> userId, category |-> category, amount |-> amount,
     period |-> "monthly"]

\* $match { userId, type: 'expense', date: { $gte: startOfMonth } } of
\* checkBudgetAlert: no upper end.
AlertMatch(store, userId, clock) ==
    {d \in store : /\ d.userId = userId
                   /\ d.type = "expense"
                   /\ d.date >= StartOfMonth(clock)}

\* $match { userId, type: 'expense', date: { $gte: startOfMonth,
\* $lte: endOfMonth } } of getBudgetStatus.
StatusMatch(store, userId, clock) ==
    {d \in store : /\ d.userId = userId
                   /\ d.type = "expense"
                   /\ d.date >= StartOfMonth(clock)
                   /\ d.date <= EndOfMonth(clock)}

\* expenses.reduce((sum, item) => sum + item.total, 0)
RECURSIVE SumGroups(_)
SumGroups(groups) ==
    IF groups = {} THEN 0
    ELSE LET g == CHOOSE x \in groups : TRUE
         IN g.total + SumGroups(groups \ {g})

\* expenses.find(e => e._id === category)?.total || 0
GroupTotal(groups, category) ==
    IF \E g \in groups : g._id = category
    THEN (CHOOSE g \in groups : g._id = category).total
    ELSE 0

\* Every budget held against the spend of all categories.
SpentOfAllCategories(budget, groups, category) == SumGroups(groups)

\* The spend a budget is held against: all groups for 'Total', the group of
\* the asked category for that category, 0 for any other.
SpentOf(budget, groups, category) ==
    IF budget.category = "Total" THEN SumGroups(groups)
    ELSE IF budget.category = category THEN GroupTotal(groups, category)
    ELSE 0

\* The orders a find may return a set of documents in.
Orders(S) ==
    {s \in [1..Cardinality(S) -> S] :
        \A i, j \in DOMAIN s : i /= j => s[i] /= s[j]}

\* Math.round((spent / amount) * 100) for a positive amount.
RoundPercent(spent, amount) == (200 * spent + amount) \div (2 * amount)

\* The alert of one budget: percentage = (spent / amount) * 100, exceeded at
\* >= 100, approaching at >= 80, none below.
AlertOf(budget, spent) ==
    IF spent * 100 >= 100 * budget.amount
    THEN <<[kind |-> "exceeded", category |-> budget.category,
            percentage |-> RoundPercent(spent, budget.amount)]>>
    ELSE IF spent * 100 >= 80 * budget.amount
    THEN <<[kind |-> "approaching", category |-> budget.category,
            percentage |-> RoundPercent(spent, budget.amount)]>>
    ELSE <<>>

\* for (const budget of budgets) ...: the alerts in the order of the budgets.
RECURSIVE Alerts(_, _, _)
Alerts(found, groups, category) ==
    IF found = <<>> THEN <<>>
    ELSE AlertOf(Head(found), SpentOf(Head(found), groups, category))
            \o Alerts(Tail(found), groups, category)

\* checkBudgetAlert(userId, category) up to the answer of Budget.find:
\* null without a budget of the category or of 'Total'.
checkBudgetAlert(h, userId, category) ==
    /\ pc[h] = "idle"
    /\ \E found \in Orders({b \in budgets :
                               /\ b.userId = userId
                               /\ b.category \in {category, "Total"}}) :
          /\ call' = [call EXCEPT ![h] = [op |-> "checkBudgetAlert",
                                          userId |-> userId,
                                          category |-> category,
                                          budgets |-> found]]
          /\ IF found = <<>>
             THEN /\ result' = [result EXCEPT ![h] =
                                   [kind |-> "null", alerts |-> <<>>]]
                  /\ pc' = [pc EXCEPT ![h] = "done"]
             ELSE /\ result' = result
                  /\ pc' = [pc EXCEPT ![h] = "alertAggregate"]
    /\ UNCHANGED <<ledger, budgets, now, nextId, ct, mt, imageVars>>

\* checkBudgetAlert from the answer of the aggregate: the alerts joined, or
\* null when there is none.
checkBudgetAlertAggregate(h) ==
    /\ pc[h] = "alertAggregate"
    /\ LET groups == GroupByCategory(AlertMatch(ledger, call[h].userId, now))
           alerts == Alerts(call[h].budgets, groups, call[h].category)
       IN result' = [result EXCEPT ![h] =
                        IF Len(alerts) > 0
                        THEN [kind |-> "alerts", alerts |-> alerts]
                        ELSE [kind |-> "null", alerts |-> <<>>]]
    /\ pc' = [pc EXCEPT ![h] = "done"]
    /\ UNCHANGED <<ledger, budgets, now, nextId, ct, mt, imageVars, call>>

\* isOverBudget with >= for >.
IsOverBudgetOrEqual(spent, limit) == spent >= limit

\* isOverBudget: spent > budget.amount
IsOverBudget(spent, limit) == spent > limit

\* The status of one budget.
StatusOf(budget, groups) ==
    LET spent == SpentOf(budget, groups, budget.category)
    IN [category |-> budget.category,
        limit |-> budget.amount,
        spent |-> spent,
        remaining |-> budget.amount - spent,
        percentage |-> RoundPercent(spent, budget.amount),
        isOverBudget |-> IsOverBudget(spent, budget.amount)]

\* getBudgetStatus(userId) up to the answer of Budget.find: [] without a
\* budget.
getBudgetStatus(h, userId) ==
    /\ pc[h] = "idle"
    /\ \E found \in Orders({b \in budgets : b.userId = userId}) :
          /\ call' = [call EXCEPT ![h] = [op |-> "getBudgetStatus",
                                          userId |-> userId,
                                          budgets |-> found]]
          /\ IF found = <<>>
             THEN /\ result' = [result EXCEPT ![h] =
                                   [kind |-> "status", statusList |-> <<>>]]
                  /\ pc' = [pc EXCEPT ![h] = "done"]
             ELSE /\ result' = result
                  /\ pc' = [pc EXCEPT ![h] = "statusAggregate"]
    /\ UNCHANGED <<ledger, budgets, now, nextId, ct, mt, imageVars>>

\* getBudgetStatus from the answer of the aggregate: budgets.map(...).
getBudgetStatusAggregate(h) ==
    /\ pc[h] = "statusAggregate"
    /\ LET groups == GroupByCategory(StatusMatch(ledger, call[h].userId, now))
       IN result' = [result EXCEPT ![h] =
                        [kind |-> "status",
                         statusList |->
                             [i \in DOMAIN call[h].budgets |->
                                 StatusOf(call[h].budgets[i], groups)]]]
    /\ pc' = [pc EXCEPT ![h] = "done"]
    /\ UNCHANGED <<ledger, budgets, now, nextId, ct, mt, imageVars, call>>

\* The clock of the budget checks: ten minutes into the second month.
BudgetNow == MonthMinutes + 10

\* The records the budget checks are run on, any of them present or not:
\* Food expenses of owner A on the first and in the last minute of the month
\* and in between, a Transport expense, an income, a record of the month
\* before and one of the month after, and a record of owner B.
LedgerPool ==
    {TransactionDoc(1, "A", <<"l">>, 799, "Food", "expense",
                    StartOfMonth(BudgetNow), 0),
     TransactionDoc(2, "A", <<"l">>, 1, "Food", "expense", BudgetNow, 0),
     TransactionDoc(3, "A", <<"l">>, 200, "Food", "expense",
                    EndOfMonth(BudgetNow), 0),
     TransactionDoc(4, "A", <<"l">>, 50, "Food", "expense", BudgetNow, 0),
     TransactionDoc(5, "A", <<"t">>, 1, "Transport", "expense", BudgetNow, 0),
     TransactionDoc(6, "A", <<"l">>, 800, "Food", "income", BudgetNow, 0),
     TransactionDoc(7, "A", <<"l">>, 800, "Food", "expense",
                    StartOfMonth(BudgetNow) - 1, 0),
     TransactionDoc(8, "A", <<"l">>, 800, "Food", "expense",
                    EndOfMonth(BudgetNow) + 1, 0),
     TransactionDoc(9, "B", <<"l">>, 800, "Food", "expense", BudgetNow, 0)}

\* The budgets that may have been set.
BudgetPool ==
    {BudgetDoc(1, "A", "Food", 1000), BudgetDoc(2, "A", "Total", 1000),
     BudgetDoc(3, "B", "Food", 1000)}

AlertCategories == {"Food", "Transport", "Total"}

InitBudget ==
    /\ ledger \in SUBSET LedgerPool
    /\ budgets \in SUBSET BudgetPool
    /\ now = BudgetNow
    /\ nextId = Cardinality(LedgerPool) + 1
    /\ pc = [h \in Handlers |-> "idle"]
    /\ ct = [h \in Handlers |-> CtIdle]
    /\ mt = [h \in Handlers |-> MtIdle]
    /\ result = [h \in Handlers |-> NoResult]
    /\ processedImageIds = {}
    /\ timers = {}
    /\ img = [h \in Handlers |-> NoImage]
    /\ post = "none"
    /\ call = [h \in Handlers |-> NoCall]

NextBudget ==
    \/ \E u \in Senders, c \in AlertCategories : checkBudgetAlert("h1", u, c)
    \/ checkBudgetAlertAggregate("h1")
    \/ \E u \in Senders : getBudgetStatus("h1", u)
    \/ getBudgetStatusAggregate("h1")
    \/ \E u \in Senders, d \in LedgerPool : dashboardDELETE("h2", u, d._id)

SpecBudget == InitBudget /\ [][NextBudget]_vars

\* The owner's expense of the current calendar month that a budget is held
\* against: of every category for 'Total', of its own category otherwise.
MonthSpend(store, userId, budget, clock) ==
    SumAmount({d \in store :
                  /\ d.userId = userId
                  /\ d.type = "expense"
                  /\ d.date >= StartOfMonth(clock)
                  /\ d.date <= EndOfMonth(clock)
                  /\ (budget.category /= "Total"
                         => d.category = budget.category)})

\* The kinds of the alerts that name a category.
AlertKinds(alerts, category) ==
    {alerts[i].kind : i \in {j \in DOMAIN alerts : alerts[j].category = category}}

\* C14: for every evaluated budget with current-month spend s and limit L
\* the reply holds an exceeded alert when s / L >= 100%, an approaching alert
\* when 80% <= s / L < 100% and none below 80%, and it is null when no
\* evaluated budget reaches 80%.
C14_AlertThresholds ==
    [][(pc["h1"] = "alertAggregate" /\ pc'["h1"] = "done")
          => LET found == call["h1"].budgets
                 s(i) == MonthSpend(ledger, call["h1"].userId, found[i], now)
                 alerts == result'["h1"].alerts
             IN /\ \A i \in DOMAIN found :
                      AlertKinds(alerts, found[i].category) =
                          IF s(i) * 100 >= 100 * found[i].amount
                          THEN {"exceeded"}
                          ELSE IF s(i) * 100 >= 80 * found[i].amount
                          THEN {"approaching"}
                          ELSE {}
                /\ Len(alerts) <= Len(found)
                /\ (result'["h1"].kind = "null")
                      = (\A i \in DOMAIN found :
                            s(i) * 100 < 80 * found[i].amount)]_vars

\* C15: getBudgetStatus returns one status per budget of the owner, with the
\* owner's current-month expense of all categories for 'Total' and of the
\* budget's category otherwise, and isOverBudget exactly when spent > limit.
C15_BudgetStatus ==
    [][/\ (pc["h1"] = "idle" /\ call'["h1"] /= call["h1"]
              /\ call'["h1"].op = "getBudgetStatus")
          => LET found == call'["h1"].budgets
             IN /\ {found[i] : i \in DOMAIN found}
                      = {b \in budgets : b.userId = call'["h1"].userId}
                /\ Len(found) = Cardinality({b \in budgets :
                                    b.userId = call'["h1"].userId})
                /\ (found = <<>>) =
                      (pc'["h1"] = "done"
                          /\ result'["h1"].kind = "status"
                          /\ result'["h1"].statusList = <<>>)
       /\ (pc["h1"] = "statusAggregate" /\ pc'["h1"] = "done")
          => LET found == call["h1"].budgets
                 list == result'["h1"].statusList
             IN /\ Len(list) = Len(found)
                /\ \A i \in DOMAIN found :
                      /\ list[i].category = found[i].category
                      /\ list[i].limit = found[i].amount
                      /\ list[i].spent =
                             MonthSpend(ledger, call["h1"].userId,
                                        found[i], now)
                      /\ list[i].isOverBudget
                             = (list[i].spent > list[i].limit)]_vars

\* A status of the Food budget with spent equal to the limit, not over
\* budget, beside a Total status that is over budget, with income and records
\* of other months and owners in the ledger.
C15_Witness ==
    /\ result["h1"].kind = "status"
    /\ Len(result["h1"].statusList) = 2
    /\ \E i \in DOMAIN result["h1"].statusList :
          LET st == result["h1"].statusList[i]
          IN st.category = "Food" /\ st.spent = st.limit /\ ~st.isOverBudget
    /\ \E i \in DOMAIN result["h1"].statusList :
          LET st == result["h1"].statusList[i]
          IN st.category = "Total" /\ st.isOverBudget
    /\ \E d \in ledger : d.type = "income"
    /\ \E d \in ledger : d.date > EndOfMonth(now)
    /\ \E d \in ledger : d.date < StartOfMonth(now)
    /\ \E d \in ledger : d.userId = "B"

\* --------------------------------------------------------------- setBudget

\* The unique index on { userId, category } left out.
NoUniqueIndex(store, userId, category) == FALSE

\* BudgetSchema.index({ userId: 1, category: 1 }, { unique: true }): an
\* insert of a second budget of the pair is refused.
DuplicateKey(store, userId, category) ==
    \E b \in store : b.userId = userId /\ b.category = category

\* The update { amount, period: 'monthly' } applied to the budget of a pair.
UpdateBudget(store, userId, category, amount) ==
    {IF b.userId = userId /\ b.category = category
     THEN [b EXCEPT !.amount = amount, !.period = "monthly"]
     ELSE b : b \in store}

\* setBudget(userId, category, amount): findOneAndUpdate with upsert.  A
\* budget that matches { userId, category } is updated in place; without one
\* the store goes on to insert.
setBudget(h, userId, category, amount) ==
    /\ pc[h] = "idle"
    /\ call' = [call EXCEPT ![h] = [op |-> "setBudget", userId |-> userId,
                                    category |-> category,
                                    amount |-> amount]]
    /\ IF \E b \in budgets : b.userId = userId /\ b.category = category
       THEN /\ budgets' = UpdateBudget(budgets, userId, category, amount)
            /\ result' = [result EXCEPT ![h] =
                             [kind |-> "budget", amount |-> amount]]
            /\ pc' = [pc EXCEPT ![h] = "done"]
       ELSE /\ budgets' = budgets
            /\ result' = result
            /\ pc' = [pc EXCEPT ![h] = "upsert"]
    /\ UNCHANGED <<ledger, now, nextId, ct, mt, imageVars>>

\* The insert of the upsert.  When another upsert has inserted the pair in
\* between, the unique index refuses the insert: the store retries the
\* operation as an update, or the duplicate key error reaches the caller.
setBudgetUpsert(h) ==
    /\ pc[h] = "upsert"
    /\ LET c == call[h]
       IN IF DuplicateKey(budgets, c.userId, c.category)
          THEN \/ /\ budgets' = UpdateBudget(budgets, c.userId, c.category,
                                             c.amount)
                  /\ result' = [result EXCEPT ![h] =
                                   [kind |-> "budget", amount |-> c.amount]]
                  /\ nextId' = nextId
               \/ /\ budgets' = budgets
                  /\ result' = [result EXCEPT ![h] =
                                   [kind |-> "threw", amount |-> c.amount]]
                  /\ nextId' = nextId
          ELSE /\ budgets' = budgets \cup
                      {BudgetDoc(nextId, c.userId, c.category, c.amount)}
               /\ result' = [result EXCEPT ![h] =
                                [kind |-> "budget", amount |-> c.amount]]
               /\ nextId' = nextId + 1
    /\ pc' = [pc EXCEPT ![h] = "done"]
    /\ UNCHANGED <<ledger, now, ct, mt, imageVars, call>>

\* What the language service may hand to setBudget.
BudgetCategories == {"Food", "Total"}
BudgetAmounts == {500, 700}

\* The budgets set before the calls.
PriorBudgets ==
    {BudgetDoc(1, "A", "Food", 1000), BudgetDoc(2, "B", "Food", 1000)}

InitSetBudget ==
    /\ ledger = {}
    /\ budgets \in SUBSET PriorBudgets
    /\ now = 0
    /\ nextId = Cardinality(PriorBudgets) + 1
    /\ pc = [h \in Handlers |-> "idle"]
    /\ ct = [h \in Handlers |-> CtIdle]
    /\ mt = [h \in Handlers |-> MtIdle]
    /\ result = [h \in Handlers |-> NoResult]
    /\ processedImageIds = {}
    /\ timers = {}
    /\ img = [h \in Handlers |-> NoImage]
    /\ post = "none"
    /\ call = [h \in Handlers |-> NoCall]

NextSetBudget ==
    \/ \E h \in Handlers, u \in Owners, c \in BudgetCategories,
          a \in BudgetAmounts : setBudget(h, u, c, a)
    \/ \E h \in Handlers : setBudgetUpsert(h)

SpecSetBudget == InitSetBudget /\ [][NextSetBudget]_vars

\* The budgets of a pair.
BudgetsOf(store, userId, category) ==
    {b \in store : b.userId = userId /\ b.category = category}

\* Handler h has a setBudget call for the pair, begun or returned.
CalledFor(h, userId, category) ==
    /\ call[h].op = "setBudget"
    /\ call[h].userId = userId
    /\ call[h].category = category

\* C16: whatever the interleaving of the setBudget calls, the store holds at
\* most one budget per owner and category; a pair that a call has set holds
\* the amount of one of its calls, the amount of the call that returned last
\* right after it returns; and a step of a call leaves the budgets of all
\* other pairs as they were.
C16_OneBudgetPerPair ==
    [][/\ \A u \in Owners, c \in BudgetCategories :
             /\ Cardinality(BudgetsOf(budgets', u, c)) <= 1
             /\ \A b \in BudgetsOf(budgets', u, c) :
                   \/ b \in BudgetsOf(budgets, u, c)
                   \/ \E h \in Handlers :
                         /\ call'[h].op = "setBudget"
                         /\ call'[h].userId = u
                         /\ call'[h].category = c
                         /\ call'[h].amount = b.amount
       /\ \A h \in Handlers :
             (pc[h] /= "done" /\ pc'[h] = "done"
                 /\ result'[h].kind = "budget")
                => /\ \E b \in budgets' :
                         /\ b.userId = call'[h].userId
                         /\ b.category = call'[h].category
                         /\ b.amount = call'[h].amount
                   /\ \A b \in budgets :
                         (b.userId /= call'[h].userId
                             \/ b.category /= call'[h].category)
                            => b \in budgets']_vars

\* Two calls for the same new pair have overlapped and both have returned a
\* budget, beside the budget of another owner.
C16_Witness ==
    /\ pc["h1"] = "done" /\ pc["h2"] = "done"
    /\ result["h1"].kind = "budget" /\ result["h2"].kind = "budget"
    /\ CalledFor("h1", "A", "Total") /\ CalledFor("h2", "A", "Total")
    /\ call["h1"].amount /= call["h2"].amount
    /\ nextId = Cardinality(PriorBudgets) + 2
    /\ BudgetsOf(budgets, "B", "Food") /= {}

\* ----------------------------------------------------------- dashboard PUT

\* The input validation of PUT: which 400 it answers, or "" when the body
\* passes.  A missing field is the empty label, 0, "" or the unparsable date.
PutRejection(body) ==
    IF body.item = <<>> \/ body.amount = 0 \/ body.category = ""
          \/ body.type = "" \/ body.date = InvalidDate
    THEN "Missing required fields"
    ELSE IF body.amount <= 0 THEN "Invalid amount"
    ELSE IF body.type \notin {"expense", "income"}
         THEN "Invalid transaction type"
    ELSE ""

\* Transaction.findByIdAndUpdate(id, { $set: ... })
FindByIdAndUpdate(store, id, body) ==
    {IF d._id = id
     THEN [d EXCEPT !.item = body.item, !.amount = body.amount,
                    !.category = body.category, !.type = body.type,
                    !.date = body.date[1]]
     ELSE d : d \in store}

\* PUT /api/transactions/[id] up to its update: the ownership check by
\* findOne({ _id: id, userId }) and the validation of the body.
dashboardPUT(h, userId, id, body) ==
    /\ pc[h] = "idle"
    /\ call' = [call EXCEPT ![h] = [op |-> "PUT", userId |-> userId,
                                    id |-> id, body |-> body]]
    /\ IF ~(\E d \in ledger : d._id = id /\ d.userId = userId)
       THEN /\ result' = [result EXCEPT ![h] = Reply("404", 0, <<>>)]
            /\ pc' = [pc EXCEPT ![h] = "done"]
       ELSE IF PutRejection(body) /= ""
            THEN /\ result' = [result EXCEPT ![h] = Reply("400", 0, <<>>)]
                 /\ pc' = [pc EXCEPT ![h] = "done"]
            ELSE /\ result' = result
                 /\ pc' = [pc EXCEPT ![h] = "putUpdate"]
    /\ UNCHANGED <<ledger, budgets, now, nextId, ct, mt, imageVars>>

\* The findByIdAndUpdate of PUT and its response: the updated document, or
\* null when the document has gone in between.
dashboardPUTUpdate(h) ==
    /\ pc[h] = "putUpdate"
    /\ ledger' = FindByIdAndUpdate(ledger, call[h].id, call[h].body)
    /\ result' = [result EXCEPT ![h] =
                     IF \E d \in ledger : d._id = call[h].id
                     THEN Reply("updated", 1, <<>>)
                     ELSE Reply("null", 0, <<>>)]
    /\ pc' = [pc EXCEPT ![h] = "done"]
    /\ UNCHANGED <<budgets, now, nextId, ct, mt, imageVars, call>>

\* The chat handler is ready for its next message.
NextMessage(h) ==
    /\ pc[h] = "done"
    /\ pc' = [pc EXCEPT ![h] = "idle"]
    /\ mt' = [mt EXCEPT ![h] = MtIdle]
    /\ result' = [result EXCEPT ![h] = NoResult]
    /\ call' = [call EXCEPT ![h] = NoCall]
    /\ UNCHANGED <<ledger, budgets, now, nextId, ct, imageVars>>

\* Candidates, patches and bodies whose amount is negative, zero or positive
\* and whose category or type may be missing or unknown.
AmountCandidates ==
    [item : {<<"l">>}, amount : {0 - 5, 0, 150}, category : {"", "Food"},
     type : {"", "expense"}, date : {<<0>>}]
AmountDescriptors ==
    {Descriptor(<<>>, <<>>, <<>>, p) :
        p \in [action : {"UPDATE"}, newItem : {<<>>},
               newAmount : {<<>>, <<0 - 5>>, <<0>>, <<50>>},
               newCategory : {""}]}
PutBodies ==
    [item : {<<"t">>}, amount : {0 - 5, 0, 10}, category : {"", "Food"},
     type : {"expense", "other"}, date : {<<1>>}]

InitAmount == InitCreate

NextAmount ==
    \/ \E c \in AmountCandidates : createTransactions("h1", "A", <<c>>)
    \/ createTransactionsFindOne("h1")
    \/ createTransactionsCreate("h1")
    \/ createTransactionsReturn("h1")
    \/ \E mod \in AmountDescriptors : modifyTransaction("h1", "A", mod)
    \/ modifyTransactionExecute("h1")
    \/ NextMessage("h1")
    \/ \E id \in 1..MaxRecords, body \in PutBodies :
          dashboardPUT("h2", "A", id, body)
    \/ dashboardPUTUpdate("h2")

SpecAmount == InitAmount /\ [][NextAmount]_vars

\* C17: every persisted transaction has a positive amount, a kind and a
\* category, whatever createTransactions, the UPDATE of modifyTransaction and
\* the dashboard PUT have done.
C17_PersistedAmountsArePositive ==
    \A d \in ledger : d.amount > 0 /\ d.type /= "" /\ d.category /= ""

\* ---------------------------------------------- getTransactionList, top

\* The filter of getTransactionList: the owner's documents dated within
\* [startDate, endDate], of the category of the query when it names one.
ListFilter(store, userId, query) ==
    {d \in store :
        /\ d.userId = userId
        /\ d.date >= query.startDate
        /\ d.date <= query.endDate
        /\ (query.category /= "" => d.category = query.category)}

\* The documents sorted by date in ascending order.
RECURSIVE SortByDateAsc(_)
SortByDateAsc(S) ==
    IF S = {} THEN {<<>>}
    ELSE UNION {{<<x>> \o rest : rest \in SortByDateAsc(S \ {x})} :
                  x \in {y \in S : \A z \in S : z.date >= y.date}}

\* .sort({ date: -1 }): the orders the sort may return, documents of the
\* same date in either order.
RECURSIVE SortByDateDesc(_)
SortByDateDesc(S) ==
    IF S = {} THEN {<<>>}
    ELSE UNION {{<<x>> \o rest : rest \in SortByDateDesc(S \ {x})} :
                  x \in {y \in S : \A z \in S : z.date <= y.date}}

ListLimit == 20

\* transactions.map(t => ({ item, amount, category, date, type }))
Detail(t) ==
    [item |-> t.item, amount |-> t.amount, category |-> t.category,
     date |-> t.date, type |-> t.type]

\* The lists getTransactionList may return from a store.
TransactionLists(store, userId, query) ==
    {[i \in DOMAIN Limit(docs, ListLimit) |-> Detail(docs[i])] :
        docs \in SortByDateDesc(ListFilter(store, userId, query))}

\* getTransactionList(userId, query): one find, sorted and limited.
getTransactionList(h, userId, query) ==
    /\ pc[h] = "idle"
    /\ call' = [call EXCEPT ![h] = [op |-> "getTransactionList",
                                    userId |-> userId, query |-> query]]
    /\ \E list \in TransactionLists(ledger, userId, query) :
          result' = [result EXCEPT ![h] = [kind |-> "list", list |-> list]]
    /\ pc' = [pc EXCEPT ![h] = "done"]
    /\ UNCHANGED <<ledger, budgets, now, nextId, ct, mt, imageVars>>

\* A matchStage without the type: the owner's records within the range.
TopMatchAnyType(store, userId, query) ==
    {d \in store :
        /\ d.userId = userId
        /\ d.date >= query.startDate
        /\ d.date <= query.endDate}

\* The matchStage of getTopExpense: the owner's expenses within the range.
TopMatch(store, userId, query) ==
    {d \in store :
        /\ d.userId = userId
        /\ d.type = "expense"
        /\ d.date >= query.startDate
        /\ d.date <= query.endDate}

\* $group by category, $sort total desc, $limit 1: the answers, none
\* without an expense.
TopCategories(store, userId, query) ==
    LET groups == GroupByCategory(TopMatch(store, userId, query))
    IN IF groups = {} THEN {<<>>}
       ELSE {<<[category |-> g._id, total |-> g.total]>> :
                g \in {x \in groups : \A y \in groups : y.total <= x.total}}

\* find(matchStage).sort({ amount: -1 }).limit(1): the answers.
TopItems(store, userId, query) ==
    LET docs == TopMatch(store, userId, query)
    IN IF docs = {} THEN {<<>>}
       ELSE {<<[item |-> d.item, amount |-> d.amount, date |-> d.date]>> :
                d \in {x \in docs : \A y \in docs : y.amount <= x.amount}}

\* getTopExpense(userId, query) up to the answer of its aggregate.
getTopExpense(h, userId, query) ==
    /\ pc[h] = "idle"
    /\ \E top \in TopCategories(ledger, userId, query) :
          call' = [call EXCEPT ![h] = [op |-> "getTopExpense",
                                       userId |-> userId, query |-> query,
                                       topCategory |-> top]]
    /\ pc' = [pc EXCEPT ![h] = "topFind"]
    /\ UNCHANGED <<ledger, budgets, now, nextId, ct, mt, result, imageVars>>

\* getTopExpense from the answer of its find: the two tops, null for a
\* missing one.
getTopExpenseFind(h) ==
    /\ pc[h] = "topFind"
    /\ \E top \in TopItems(ledger, call[h].userId, call[h].query) :
          result' = [result EXCEPT ![h] =
                        [kind |-> "top", topCategory |-> call[h].topCategory,
                         topItem |-> top]]
    /\ pc' = [pc EXCEPT ![h] = "done"]
    /\ UNCHANGED <<ledger, budgets, now, nextId, ct, mt, imageVars, call>>

\* ------------------------------------------------------------- two owners

\* What the services hand over for owner A beside the records of owner B.
OwnerCandidates ==
    [item : {<<"l">>}, amount : {150}, category : {"Food"},
     type : {"expense"}, date : {<<0>>}]
OwnerDescriptors ==
    {Descriptor(ti, ta, <<>>, p) :
        ti \in {<<>>, <<".">>}, ta \in {<<>>},
        p \in [action : {"UPDATE"}, newItem : {<<>>}, newAmount : {<<50>>},
               newCategory : {""}]
              \cup [action : {"DELETE"}, newItem : {<<>>},
                    newAmount : {<<>>}, newCategory : {""}]}
OwnerQueries == [startDate : {0}, endDate : {9}, category : {""}]
OwnerRanges == [startDate : {<<0>>}, endDate : {<<>>, <<9>>}]
OwnerBodies ==
    [item : {<<"t">>}, amount : {10}, category : {"Food"},
     type : {"expense"}, date : {<<1>>}]

\* The records and budgets of owner B, one record identical to a candidate
\* of A, and the budgets A may have set before.
OthersDocs ==
    {TransactionDoc(0, "B", <<"l">>, 150, "Food", "expense", 0, 0),
     TransactionDoc(0 - 1, "B", <<"c">>, 150, "Transport", "expense", 0, 0)}
OthersBudgets == {BudgetDoc(0, "B", "Food", 1000)}
OwnBudgets == {BudgetDoc(0 - 1, "A", "Food", 200)}

InitOwner ==
    /\ ledger = OthersDocs
    /\ budgets \in {OthersBudgets, OthersBudgets \cup OwnBudgets}
    /\ now = 0
    /\ nextId = 1
    /\ pc = [h \in Handlers |-> "idle"]
    /\ ct = [h \in Handlers |-> CtIdle]
    /\ mt = [h \in Handlers |-> MtIdle]
    /\ result = [h \in Handlers |-> NoResult]
    /\ processedImageIds = {}
    /\ timers = {}
    /\ img = [h \in Handlers |-> NoImage]
    /\ post = "none"
    /\ call = [h \in Handlers |-> NoCall]

\* Handler h1 serves the chat messages of owner A, handler h2 one dashboard
\* request of owner A, on a record id of B (0) or of A (1).
NextOwner ==
    \/ \E c \in OwnerCandidates : createTransactions("h1", "A", <<c>>)
    \/ createTransactionsFindOne("h1")
    \/ createTransactionsCreate("h1")
    \/ createTransactionsReturn("h1")
    \/ \E mod \in OwnerDescriptors : modifyTransaction("h1", "A", mod)
    \/ modifyTransactionExecute("h1")
    \/ \E q \in OwnerRanges : bulkDeleteTransactions("h1", "A", q)
    \/ \E q \in OwnerQueries : getTransactionStats("h1", "A", q)
    \/ \E q \in OwnerQueries : getTransactionList("h1", "A", q)
    \/ \E q \in OwnerQueries : getTopExpense("h1", "A", q)
    \/ getTopExpenseFind("h1")
    \/ \E c \in BudgetCategories : setBudget("h1", "A", c, 500)
    \/ setBudgetUpsert("h1")
    \/ \E c \in BudgetCategories : checkBudgetAlert("h1", "A", c)
    \/ checkBudgetAlertAggregate("h1")
    \/ getBudgetStatus("h1", "A")
    \/ getBudgetStatusAggregate("h1")
    \/ \E id \in 0..1, body \in OwnerBodies :
          dashboardPUT("h2", "A", id, body)
    \/ dashboardPUTUpdate("h2")
    \/ \E id \in 0..1 : dashboardDELETE("h2", "A", id)
    \/ NextMessage("h1")

SpecOwner == InitOwner /\ [][NextOwner]_vars

\* The documents of a store that belong to an owner.
OwnedBy(store, userId) == {d \in store : d.userId = userId}

\* The result handler h receives in this step is one the operation gives on
\* the store without the documents of the other owner.
ResultFromOwnRecords(h) ==
    LET own == OwnedBy(ledger, "A")
        r == result'[h]
        c == call'[h]
    IN CASE r.kind = "stats" ->
              \E q \in OwnerQueries :
                 LET docs == MatchStage(own, "A", q)
                     totals == GroupByType(docs)
                 IN /\ r.totalExpense = TotalOfType(totals, "expense")
                    /\ r.totalIncome = TotalOfType(totals, "income")
                    /\ r.transactionCount = CountOf(totals)
                    /\ r.breakdown \in
                          SortByTotalDesc(GroupByCategory(ExpenseOnly(docs)))
         [] r.kind = "list" ->
              r.list \in TransactionLists(own, "A", c.query)
         [] r.kind = "top" ->
              r.topItem \in TopItems(own, "A", c.query)
         [] c.op = "checkBudgetAlert" /\ r.kind \in {"alerts", "null"} ->
              r.alerts = Alerts(c.budgets,
                                GroupByCategory(AlertMatch(own, "A", now)),
                                c.category)
         [] r.kind = "status" ->
              r.statusList =
                 [i \in DOMAIN c.budgets |->
                     StatusOf(c.budgets[i],
                              GroupByCategory(StatusMatch(own, "A", now)))]
         [] r.kind \in {"noRecord", "noItem", "noAmount", "ambiguous"} ->
              \E found \in FindSorted(Matching(own, "A", mt'[h].mod[1]),
                                      QueryLimit(mt'[h].mod[1])) :
                 Resolution(mt'[h].mod[1], found).reply = <<r>>
         [] r.kind = "bulkDeleted" ->
              r.count = Cardinality(own \ ledger')
         [] r.kind = "success" -> own \ ledger' /= {}
         [] OTHER -> TRUE

\* C18: no operation invoked for owner A returns, counts, modifies or
\* deletes a record or a budget of owner B: the records and budgets of B are
\* the same after every step, every result is the one the operation gives
\* without B's records, the target and the budgets an operation loads are
\* A's, a candidate of A is a duplicate only of a record of A, and a PUT or
\* DELETE on a record id of B answers not found.
C18_NoCrossOwnerEffect ==
    [][/\ OwnedBy(ledger', "B") = OwnedBy(ledger, "B")
       /\ OwnedBy(budgets', "B") = OwnedBy(budgets, "B")
       /\ \A h \in Handlers :
             /\ result'[h] /= result[h] => ResultFromOwnRecords(h)
             /\ \A i \in DOMAIN mt'[h].targetTx :
                   mt'[h].targetTx[i].userId = "A"
             /\ call'[h].op \in {"checkBudgetAlert", "getBudgetStatus"}
                   => \A i \in DOMAIN call'[h].budgets :
                         call'[h].budgets[i].userId = "A"
             /\ (call'[h].op = "getTopExpense" /\ pc[h] = "idle")
                   => call'[h].topCategory \in
                         TopCategories(OwnedBy(ledger, "A"), "A",
                                       call'[h].query)
             /\ (FindOneStep(h)
                    /\ Len(ct'[h].duplicateItems) > Len(ct[h].duplicateItems))
                   => \E d \in OwnedBy(ledger, "A") :
                         SameCandidate(d, TxData("A", Head(ct[h].queue), now))
             /\ (call'[h].op = "PUT" /\ pc[h] = "idle"
                    /\ \E d \in OwnedBy(ledger, "B") : d._id = call'[h].id)
                   => result'[h].kind = "404"]_vars

\* A's candidate has been persisted although B holds an identical record
\* dated now, a PUT of A on that record of B was answered not found, and
\* B's records are all there.
C18_Witness ==
    /\ \E d \in ledger, e \in ledger :
          /\ d.userId = "A" /\ e.userId = "B"
          /\ d.item = e.item /\ d.amount = e.amount
          /\ d.category = e.category /\ d.type = e.type /\ d.date = e.date
    /\ call["h2"].op = "PUT" /\ call["h2"].id = 0
    /\ result["h2"].kind = "404"
    /\ OwnedBy(ledger, "B") = OthersDocs

\* ------------------------------------------------------- webhook delivery

\* An event callback whose exceptions are not caught.
NoCatch(outcome) == IF outcome = "threw" THEN "rejected" ELSE "fulfilled"

\* try { ... } catch (error) { console.error(...) }: whatever the handling
\* of the event ends in, the callback returns and its promise is fulfilled.
Catch(outcome) == "fulfilled"

\* The callback of handler h ends with an outcome.
EventEnds(h, outcome) ==
    /\ result' = [result EXCEPT ![h] = [kind |-> outcome,
                                        promise |-> Catch(outcome)]]
    /\ pc' = [pc EXCEPT ![h] = "done"]

\* POST(req) up to its await: events.map starts one callback per event of
\* the delivery, here one text message per handler.
POST(events) ==
    /\ post = "none"
    /\ \A h \in Handlers : pc[h] = "idle"
    /\ post' = "awaiting"
    /\ call' = [h \in Handlers |->
                   [op |-> "event", userId |-> events[h].userId,
                    transactions |-> events[h].transactions]]
    /\ pc' = [h \in Handlers |-> "parseMessage"]
    /\ UNCHANGED <<ledger, budgets, now, nextId, ct, mt, result,
                   processedImageIds, timers, img>>

\* dbConnect and parseMessage answer or throw.
POSTParse(h) ==
    /\ pc[h] = "parseMessage"
    /\ \/ /\ pc' = [pc EXCEPT ![h] = "intent"]
          /\ result' = result
       \/ EventEnds(h, "threw")
    /\ UNCHANGED <<ledger, budgets, now, nextId, ct, mt, imageVars, call>>

\* The RECORD intent of a message with one candidate: the store persists it
\* unless it is a duplicate, or the store call throws.
POSTIntent(h) ==
    /\ pc[h] = "intent"
    /\ \/ /\ LET valid == SelectSeqValid(call[h].transactions)
                 tx == TxData(call[h].userId, valid[1], now)
             IN IF valid = <<>> \/ FindDuplicate(ledger, tx, now)
                THEN ledger' = ledger /\ nextId' = nextId
                ELSE /\ ledger' = ledger \cup
                            {TransactionDoc(nextId, tx.userId, tx.item,
                                            tx.amount, tx.category, tx.type,
                                            tx.date, now)}
                     /\ nextId' = nextId + 1
          /\ pc' = [pc EXCEPT ![h] = "reply"]
          /\ result' = result
       \/ /\ EventEnds(h, "threw")
          /\ UNCHANGED <<ledger, nextId>>
    /\ UNCHANGED <<budgets, now, ct, mt, imageVars, call>>

\* client.replyMessage answers or throws.
POSTReply(h) ==
    /\ pc[h] = "reply"
    /\ \/ EventEnds(h, "handled")
       \/ EventEnds(h, "threw")
    /\ UNCHANGED <<ledger, budgets, now, nextId, ct, mt, imageVars, call>>

\* await Promise.all(...): POST goes on when every callback's promise is
\* fulfilled and returns { status: 'ok' }, and throws as soon as one is
\* rejected.
POSTReturn ==
    /\ post = "awaiting"
    /\ IF \E h \in Handlers :
             pc[h] = "done" /\ result[h].promise = "rejected"
       THEN post' = "error"
       ELSE /\ \A h \in Handlers : pc[h] = "done"
            /\ post' = "ok"
    /\ UNCHANGED <<ledger, budgets, now, nextId, pc, ct, mt, result,
                   processedImageIds, timers, img, call>>

\* The events of a delivery: a text message of an owner that the language
\* service reads as one candidate.
Events ==
    [userId : Owners,
     transactions : {<<c>> : c \in [item : CandidateItems, amount : {150},
                                   category : {"Food"}, type : {"expense"},
                                   date : {<<0>>}]}]

InitWebhook == InitCreate

NextWebhook ==
    \/ \E events \in [Handlers -> Events] : POST(events)
    \/ \E h \in Handlers : POSTParse(h)
    \/ \E h \in Handlers : POSTIntent(h)
    \/ \E h \in Handlers : POSTReply(h)
    \/ POSTReturn

\* Every pending callback is run: the external calls answer or fail.
SpecWebhook ==
    InitWebhook /\ [][NextWebhook]_vars /\ WF_vars(NextWebhook)

\* C19: the events of a delivery are handled independently: POST never
\* fails on an exception of an event, a step of one event's handling leaves
\* the handling of every other event as it was, and every delivery ends
\* with all events handled to their end and POST returning ok.
C19_EventsHandledIndependently ==
    /\ [](post /= "error")
    /\ [][\A h \in Handlers :
             (pc[h] /= "idle" /\ pc'[h] /= pc[h])
                => \A g \in Handlers \ {h} :
                      /\ pc'[g] = pc[g]
                      /\ result'[g] = result[g]
                      /\ call'[g] = call[g]]_vars
    /\ (post = "awaiting")
          ~> (post = "ok" /\ \A h \in Handlers : pc[h] = "done")

\* The first event threw, the second was handled with its record persisted,
\* and POST returned ok.
C19_Witness ==
    /\ post = "ok"
    /\ result["h1"].kind = "threw"
    /\ result["h2"].kind = "handled"
    /\ \E d \in ledger : d.userId = call["h2"].userId

\* The batches of one sender, handled one after the other as the minutes
\* pass: one candidate "l" dated long past, now or a few minutes ahead or
\* with an unparsable date, or two candidates dated now whose labels are the
\* same or differ in case.
WindowBatches(clock) ==
    {<<c>> : c \in [item : {<<"l">>}, amount : {150}, category : {"Food"},
                    type : {"expense"}, date : CandidateDates(clock)]}
        \cup {<<c1, c2>> : c1 \in [item : {<<"l">>}, amount : {150},
                                   category : {"Food"}, type : {"expense"},
                                   date : {<<clock>>}],
                           c2 \in [item : CandidateItems, amount : {150},
                                   category : {"Food"}, type : {"expense"},
                                   date : {<<clock>>}]}

InitWindow == InitCreate

NextWindow ==
    \/ \E h \in Creators, u \in Senders :
          \E b \in WindowBatches(now) : createTransactions(h, u, b)
    \/ \E h \in Creators : createTransactionsFindOne(h)
    \/ \E h \in Creators : createTransactionsCreate(h)
    \/ \E h \in Creators : createTransactionsReturn(h)
    \/ Tick

SpecWindow == InitWindow /\ [][NextWindow]_vars

\* C20: createTransactions reports a valid candidate as a duplicate if and
\* only if, when its findOne is answered, the ledger holds a record of the
\* same owner with the same item (compared exactly), amount, category and
\* type whose occurrence date lies within [now - 5 minutes, now]; a record
\* persisted earlier in the same batch counts, and one record suffices.
C20_DuplicateIffRecordInWindow ==
    [][\A h \in Creators :
          FindOneStep(h) =>
              LET tx == TxData(ct[h].userId, Head(ct[h].queue), now)
                  reported ==
                      /\ pc'[h] = "loop"
                      /\ ct'[h].duplicateItems =
                             Append(ct[h].duplicateItems, DuplicateLabel(tx))
                      /\ ledger' = ledger
                  persisting ==
                      /\ pc'[h] = "create"
                      /\ ct'[h].duplicateItems = ct[h].duplicateItems
              IN IF \E d \in ledger :
                      /\ SameCandidate(d, tx)
                      /\ d.date >= now - FiveMinutes
                      /\ d.date <= now
                 THEN reported
                 ELSE persisting]_vars

\* The second candidate of a batch is reported as a duplicate of the first,
\* which the same call has persisted.
C20_Witness ==
    \E h \in Creators :
        /\ Len(ct[h].savedDocs) = 1
        /\ Len(ct[h].duplicateItems) = 1
        /\ ct[h].savedDocs[1] \in ledger
        /\ ct[h].duplicateItems[1] =
              <<ct[h].savedDocs[1].item, ct[h].savedDocs[1].amount>>

\* ------------------------------------- getTransactionStats of lib/stats.ts

\* getTransactionStats(userId, query) of lib/stats.ts up to the answer of
\* its first aggregate: the totals by type.
getTransactionStatsTotals(h, userId, query) ==
    /\ pc[h] = "idle"
    /\ LET totals == GroupByType(MatchStage(ledger, userId, query))
       IN call' = [call EXCEPT ![h] =
                      [op |-> "getTransactionStats", userId |-> userId,
                       query |-> query,
                       totalExpense |-> TotalOfType(totals, "expense"),
                       totalIncome |-> TotalOfType(totals, "income"),
                       transactionCount |-> CountOf(totals)]]
    /\ pc' = [pc EXCEPT ![h] = "breakdown"]
    /\ UNCHANGED <<ledger, budgets, now, nextId, ct, mt, result, imageVars>>

\* The second aggregate, on the store as it is then, and the return.
getTransactionStatsBreakdown(h) ==
    /\ pc[h] = "breakdown"
    /\ LET docs == MatchStage(ledger, call[h].userId, call[h].query)
       IN \E breakdown \in SortByTotalDesc(GroupByCategory(ExpenseOnly(docs))) :
             result' = [result EXCEPT ![h] =
                           [kind |-> "stats",
                            totalExpense |-> call[h].totalExpense,
                            totalIncome |-> call[h].totalIncome,
                            breakdown |-> breakdown,
                            transactionCount |-> call[h].transactionCount]]
    /\ pc' = [pc EXCEPT ![h] = "done"]
    /\ UNCHANGED <<ledger, budgets, now, nextId, ct, mt, imageVars, call>>

InitTwoQueries == InitStats

NextTwoQueries ==
    \/ \E u \in Owners, q \in Queries : getTransactionStatsTotals("h1", u, q)
    \/ getTransactionStatsBreakdown("h1")
    \/ \E u \in Owners, id \in 1..MaxStatsLedger : dashboardDELETE("h2", u, id)

SpecTwoQueries == InitTwoQueries /\ [][NextTwoQueries]_vars

\* C21: the result getTransactionStats of lib/stats.ts returns has a
\* breakdown whose totals add up to its totalExpense, also when another
\* handler changes a record of the owner between the two aggregates.
C21_TwoQueriesSameSnapshot ==
    [][\A h \in Handlers :
          (pc[h] = "breakdown" /\ pc'[h] = "done")
             => SumTotals(result'[h].breakdown) = result'[h].totalExpense]_vars

\* C22: an UPDATE whose resolved record has been deleted between the
\* resolution and the save does not bring the record back, does not answer
\* with the confirmation of an update, and ends there: the call is over and
\* the record stays absent afterwards.
C22_UpdateOfVanishedRecordFails ==
    [][/\ (/\ ExecuteStep("h1")
           /\ mt["h1"].mod[1].action = "UPDATE"
           /\ ~ \E d \in ledger : d._id = mt["h1"].targetTx[1]._id)
          => /\ ledger' = ledger
             /\ result'["h1"].kind = "threw"
             /\ pc'["h1"] = "done"
       /\ (pc["h1"] = "done" /\ result["h1"].kind = "threw")
          => /\ pc'["h1"] = "done"
             /\ result'["h1"] = result["h1"]
             /\ ~ \E d \in ledger' : d._id = mt["h1"].targetTx[1]._id]_vars

\* The UPDATE found its record deleted through the dashboard and threw.
C22_Witness ==
    /\ pc["h1"] = "done"
    /\ result["h1"].kind = "threw"
    /\ mt["h1"].mod[1].action = "UPDATE"
    /\ result["h2"].kind = "success"

\* C23: the spend checkBudgetAlert holds a budget against is the owner's
\* expense of the current calendar month, records dated before or after it
\* left out, and so equals the spent getBudgetStatus reports for the same
\* budget on the same ledger.
C23_AlertSpendIsMonthSpend ==
    \A h \in Handlers :
        pc[h] = "alertAggregate" =>
            LET found == call[h].budgets
                alertGroups ==
                    GroupByCategory(AlertMatch(ledger, call[h].userId, now))
                statusGroups ==
                    GroupByCategory(StatusMatch(ledger, call[h].userId, now))
            IN \A i \in DOMAIN found :
                  LET spent == SpentOf(found[i], alertGroups, call[h].category)
                  IN /\ spent = MonthSpend(ledger, call[h].userId, found[i], now)
                     /\ spent = StatusOf(found[i], statusGroups).spent

\* C24: an image id is in processedImageIds exactly during the
\* IMAGE_ID_CACHE_TTL minutes that follow its most recent addition: while
\* the timer of an addition is still pending the id is in the set, and an id
\* in the set has a timer that is not overdue.
C24_CachedExactlyForTimeToLive ==
    /\ \A t \in timers : t.due > now => t.id \in processedImageIds
    /\ \A id \in processedImageIds :
          \E t \in timers : t.id = id /\ t.due >= now

\* C25: when the targetItem selector, or without a targetItem the
\* targetAmount selector, matches none of the owner's records,
\* modifyTransaction leaves the ledger as it is and returns the no-match
\* reply of that selector, whatever the indexOffset says.
C25_NoMatchNamesTheSelector ==
    [][ResolveStep("h1") =>
          LET mod == mt'["h1"].mod[1]
              own == {d \in ledger : d.userId = mt'["h1"].userId}
              noItem == /\ mod.targetItem /= <<>>
                        /\ \A d \in own : ~RegexMatch(d.item, mod.targetItem)
              noAmount == /\ mod.targetItem = <<>>
                          /\ mod.targetAmount /= <<>>
                          /\ \A d \in own : d.amount /= mod.targetAmount[1]
          IN /\ noItem => /\ pc'["h1"] = "done"
                          /\ result'["h1"] = Reply("noItem", 0, <<>>)
                          /\ mt'["h1"].targetTx = <<>>
                          /\ ledger' = ledger
             /\ noAmount => /\ pc'["h1"] = "done"
                            /\ result'["h1"] = Reply("noAmount", 0, <<>>)
                            /\ mt'["h1"].targetTx = <<>>
                            /\ ledger' = ledger]_vars

\* The item selector matched nothing although the descriptor also carries
\* an amount and an indexOffset that the owner's records would satisfy.
C25_Witness ==
    /\ pc["h1"] = "done"
    /\ result["h1"].kind = "noItem"
    /\ mt["h1"].mod[1].targetAmount /= <<>>
    /\ mt["h1"].mod[1].indexOffset /= <<>>
    /\ \E d \in ledger : /\ d.userId = mt["h1"].userId
                          /\ d.amount = mt["h1"].mod[1].targetAmount[1]

\* The owner's expense dated from the start of the month on, of one
\* category or, for 'Total', of all categories.
SpendFromStartOfMonth(store, userId, category, clock) ==
    SumAmount({d \in store :
                  /\ d.userId = userId
                  /\ d.type = "expense"
                  /\ d.date >= StartOfMonth(clock)
                  /\ (category /= "Total" => d.category = category)})

\* C26: checkBudgetAlert(owner, category) loads the owner's budget of that
\* category and the owner's 'Total' budget, those that exist, and returns
\* null when there is neither; the category budget is held against the spend
\* of that category and the 'Total' budget against the spend of all
\* categories, and no alert names any other category.
C26_AlertEvaluatesCategoryAndTotal ==
    [][/\ (pc["h1"] = "idle" /\ call'["h1"] /= call["h1"]
              /\ call'["h1"].op = "checkBudgetAlert")
          => LET found == call'["h1"].budgets
                 wanted == {b \in budgets :
                               /\ b.userId = call'["h1"].userId
                               /\ b.category \in
                                      {call'["h1"].category, "Total"}}
             IN /\ {found[i] : i \in DOMAIN found} = wanted
                /\ Len(found) = Cardinality(wanted)
                /\ (wanted = {}) => /\ pc'["h1"] = "done"
                                    /\ result'["h1"].kind = "null"
       /\ (pc["h1"] = "alertAggregate" /\ pc'["h1"] = "done")
          => LET found == call["h1"].budgets
                 alerts == result'["h1"].alerts
             IN /\ \A j \in DOMAIN alerts :
                      alerts[j].category \in {call["h1"].category, "Total"}
                /\ Len(alerts) <= Len(found)
                /\ \A i \in DOMAIN found :
                      LET s == SpendFromStartOfMonth(ledger,
                                   call["h1"].userId, found[i].category, now)
                      IN AlertKinds(alerts, found[i].category) =
                            IF s * 100 >= 100 * found[i].amount
                            THEN {"exceeded"}
                            ELSE IF s * 100 >= 80 * found[i].amount
                            THEN {"approaching"}
                            ELSE {}]_vars

\* Asked about Food with a Food and a Total budget, the reply holds the
\* alert of 'Total' only: the spend of the other category counts for
\* 'Total' and not for Food.
C26_Witness ==
    /\ pc["h1"] = "done"
    /\ call["h1"].op = "checkBudgetAlert"
    /\ call["h1"].category = "Food"
    /\ Len(call["h1"].budgets) = 2
    /\ result["h1"].kind = "alerts"
    /\ Len(result["h1"].alerts) = 1
    /\ result["h1"].alerts[1].category = "Total"

\* C27: a candidate with all required fields and an unparsable date is
\* handled as the same candidate dated now: it is reported as a duplicate or
\* goes on to be persisted with the current time as its occurrence date, the
\* call goes on, and every record of the ledger has an occurrence date.
C27_UnparsableDateBecomesNow ==
    [][/\ \A h \in Creators :
             (FindOneStep(h) /\ Head(ct[h].queue).date = InvalidDate)
                => LET t == Head(ct[h].queue)
                       dated == TxData(ct[h].userId,
                                       [t EXCEPT !.date = <<now>>], now)
                   IN IF FindDuplicate(ledger, dated, now)
                      THEN /\ pc'[h] = "loop"
                           /\ ct'[h].duplicateItems =
                                  Append(ct[h].duplicateItems,
                                         DuplicateLabel(dated))
                      ELSE /\ pc'[h] = "create"
                           /\ ct'[h].tx = <<dated>>
       /\ \A h \in Creators :
             (pc[h] = "create" /\ pc'[h] = "loop")
                => \E d \in ledger' \ ledger : d.date = ct[h].tx[1].date
       /\ \A d \in ledger' : d.date \in Int]_vars

\* A candidate with an unparsable date has passed the duplicate check after
\* minute 0 and is about to be persisted dated now.
C27_Witness ==
    \E h \in Creators :
        /\ pc[h] = "create"
        /\ Head(ct[h].queue).date = InvalidDate
        /\ ct[h].tx[1].date = now
        /\ now > 0

MaxListLedger == 22
ListDoc(i) ==
    TransactionDoc(i, "A", <<"l">>, 100 + i,
                   IF i % 3 = 0 THEN "Transport" ELSE "Food",
                   IF i % 5 = 0 THEN "income" ELSE "expense",
                   IF i = 1 THEN 2 ELSE i, i)
ListLedgers ==
    {{ListDoc(i) : i \in 1..n} \cup other :
        n \in 0..MaxListLedger,
        other \in {{}, {TransactionDoc(0, "B", <<"l">>, 100, "Food",
                                       "expense", 9, 0)}}}
ListQueries ==
    [startDate : {0, 3}, endDate : {MaxListLedger - 1, MaxListLedger + 8},
     category : {"", "Food"}]

InitList ==
    /\ ledger \in ListLedgers
    /\ budgets = {}
    /\ now = 0
    /\ nextId = MaxListLedger + 1
    /\ pc = [h \in Handlers |-> "idle"]
    /\ ct = [h \in Handlers |-> CtIdle]
    /\ mt = [h \in Handlers |-> MtIdle]
    /\ result = [h \in Handlers |-> NoResult]
    /\ processedImageIds = {}
    /\ timers = {}
    /\ img = [h \in Handlers |-> NoImage]
    /\ post = "none"
    /\ call = [h \in Handlers |-> NoCall]

NextList ==
    \/ \E u \in Owners, q \in ListQueries : getTransactionList("h1", u, q)
    \/ NextMessage("h1")
    \/ \E id \in {2, MaxListLedger} : dashboardDELETE("h2", "A", id)

SpecList == InitList /\ [][NextList]_vars

\* How often a detail occurs in a list, and how many records of a set read
\* as that detail.
Returned(list, detail) == Cardinality({i \in DOMAIN list : list[i] = detail})
Stored(S, detail) == Cardinality({d \in S : Detail(d) = detail})

\* C29: getTransactionList returns at most 20 records, all of the caller,
\* dated within [start, end] and of the category of the query when it names
\* one, no record twice, newest first, and they are the newest: every
\* record of the range that is left out is dated no later than every record
\* returned.
C29_ListHoldsTheNewestTwenty ==
    [][(pc["h1"] = "idle" /\ pc'["h1"] = "done"
           /\ result'["h1"].kind = "list")
          => LET list == result'["h1"].list
                 q == call'["h1"].query
                 inRange ==
                     {d \in ledger :
                         /\ d.userId = call'["h1"].userId
                         /\ d.date >= q.startDate
                         /\ d.date <= q.endDate
                         /\ (q.category /= "" => d.category = q.category)}
             IN /\ Len(list) <= 20
                /\ Len(list) = IF Cardinality(inRange) < 20
                               THEN Cardinality(inRange) ELSE 20
                /\ \A i, j \in DOMAIN list :
                      i < j => list[i].date >= list[j].date
                /\ \A i \in DOMAIN list :
                      Returned(list, list[i]) <= Stored(inRange, list[i])
                /\ \A d \in inRange :
                      Returned(list, Detail(d)) < Stored(inRange, Detail(d))
                         => \A i \in DOMAIN list : d.date <= list[i].date]_vars

\* A list of 20 records out of more than 20 of the range, with a record of
\* another owner and an older record of the caller left out.
C29_Witness ==
    /\ result["h1"].kind = "list"
    /\ Len(result["h1"].list) = 20
    /\ Cardinality({d \in ledger : d.userId = "A"}) > 20
    /\ call["h1"].query.category = ""
    /\ call["h1"].userId = "A"
    /\ \E d \in ledger : d.userId = "B"

\* ------------------------------------------------------------ top expense

\* The ledgers getTopExpense is run on: up to MaxStatsLedger documents, of
\* owner A expenses of either category and amount, an income larger than
\* any expense, an expense dated late, or the one of owner B.
TopShapes ==
    [userId : {"A"}, type : {"expense"}, category : {"Food", "Transport"},
     amount : {40, 60}, date : {1}]
        \cup [userId : {"A"}, type : {"income"}, category : {"Transport"},
              amount : {90}, date : {1}]
        \cup [userId : {"A"}, type : {"expense"}, category : {"Food"},
              amount : {70}, date : {9}]
        \cup [userId : {"B"}, type : {"expense"}, category : {"Food"},
              amount : {80}, date : {1}]
TopLedgers ==
    UNION {{StatsLedgerOf(f) : f \in [1..n -> TopShapes]} :
              n \in 0..MaxStatsLedger}
TopQueries == [startDate : {0}, endDate : {5, 9}, category : {""}]

InitTop ==
    /\ ledger \in TopLedgers
    /\ budgets = {}
    /\ now = 0
    /\ nextId = MaxStatsLedger + 1
    /\ pc = [h \in Handlers |-> "idle"]
    /\ ct = [h \in Handlers |-> CtIdle]
    /\ mt = [h \in Handlers |-> MtIdle]
    /\ result = [h \in Handlers |-> NoResult]
    /\ processedImageIds = {}
    /\ timers = {}
    /\ img = [h \in Handlers |-> NoImage]
    /\ post = "none"
    /\ call = [h \in Handlers |-> NoCall]

NextTop ==
    \/ \E u \in Owners, q \in TopQueries : getTopExpense("h1", u, q)
    \/ getTopExpenseFind("h1")
    \/ NextMessage("h1")
    \/ \E id \in 1..MaxStatsLedger : dashboardDELETE("h2", "A", id)

SpecTop == InitTop /\ [][NextTop]_vars

\* The expense records of an owner within a range, and what they add up to
\* in one category.
ExpensesInRange(store, userId, q) ==
    {d \in store :
        /\ d.userId = userId
        /\ d.type = "expense"
        /\ d.date >= q.startDate
        /\ d.date <= q.endDate}
SpentIn(docs, category) == SumAmount({d \in docs : d.category = category})

\* C30: getTopExpense returns as topCategory a category of the owner's
\* expenses of the range whose summed amount is maximal, with that sum, and
\* as topItem an expense record of the range whose amount is maximal; each
\* is computed from the ledger as its own query reads it, topCategory is
\* returned as the aggregate answered it whatever the find answers, and each
\* is null exactly when its query finds no expense record of the owner in
\* the range, so that on a ledger that does not change between the two
\* both are null or neither is.
C30_TopCategoryAndTopItem ==
    [][/\ (pc["h1"] = "idle" /\ pc'["h1"] = "topFind")
          => LET docs == ExpensesInRange(ledger, call'["h1"].userId,
                                         call'["h1"].query)
                 top == call'["h1"].topCategory
             IN IF docs = {} THEN top = <<>>
                ELSE /\ Len(top) = 1
                     /\ \E d \in docs : d.category = top[1].category
                     /\ top[1].total = SpentIn(docs, top[1].category)
                     /\ \A d \in docs :
                           SpentIn(docs, d.category) <= top[1].total
       /\ (pc["h1"] = "topFind" /\ pc'["h1"] = "done")
          => LET docs == ExpensesInRange(ledger, call["h1"].userId,
                                         call["h1"].query)
                 top == result'["h1"].topItem
             IN /\ result'["h1"].kind = "top"
                /\ result'["h1"].topCategory = call["h1"].topCategory
                /\ IF docs = {} THEN top = <<>>
                   ELSE /\ Len(top) = 1
                        /\ \E d \in docs :
                              /\ d.item = top[1].item
                              /\ d.amount = top[1].amount
                              /\ d.date = top[1].date
                        /\ \A d \in docs : d.amount <= top[1].amount]_vars

\* A result whose top item is a Transport expense of 60 while the top
\* category is Food with 80 out of two expenses of 40, beside a larger
\* income, a larger expense out of the range and one of another owner.
C30_Witness ==
    /\ result["h1"].kind = "top"
    /\ call["h1"].userId = "A"
    /\ result["h1"].topCategory = <<[category |-> "Food", total |-> 80]>>
    /\ Len(result["h1"].topItem) = 1
    /\ result["h1"].topItem[1].amount = 60
    /\ Cardinality({d \in ledger : d.userId = "A" /\ d.type = "expense"
                                       /\ d.category = "Food"
                                       /\ d.amount = 40}) = 2
    /\ \E d \in ledger : d.category = "Transport" /\ d.amount = 60

\* A result with neither top: the owner has no expense within the range.
C30_WitnessNull ==
    /\ result["h1"].kind = "top"
    /\ result["h1"].topCategory = <<>>
    /\ result["h1"].topItem = <<>>
    /\ \E d \in ledger : d.userId = call["h1"].userId

====
